---- MODULE Spec2Model ----
(***************************************************************************)
(* Model of the Glass window decoration (src/kdecoration): the geometry    *)
(* engine (borders, title-bar and window outline paths, caption rect), the *)
(* button layout, the active/hover animations and the button colours.      *)
(*                                                                         *)
(* Lengths are fixed-point numbers: one logical pixel is PxUnit units, so  *)
(* that the fractional pixel sizes of the display scales 1, 1.5 and 2 and  *)
(* their halves are exact.  A display scale is kept doubled (scale2 = 2 *  *)
(* scale).  Animation progress (m_opacity) is kept in 1/OpacityOne.        *)
(***************************************************************************)
EXTENDS Integers, Sequences, FiniteSets, TLC

\* ---------------------------------------------------------------- bounds
MaxWidth == 2
MaxPending == 3
MaxCaption == 3
MaxDuration == 3
MaxSignals == 4
MaxShadowSize == 6

\* ------------------------------------------------------- fixed-point base
PxUnit == 12
OpacityOne == 16

Px(n) == n * PxUnit

Max(a, b) == IF a >= b THEN a ELSE b
Min(a, b) == IF a <= b THEN a ELSE b

\* implicit qreal -> int conversion of a non-negative length (truncation)
ToInt(u) == (u \div PxUnit) * PxUnit

\* KDecoration3::pixelSize(scale) = 1 / scale
pixelSize(scale2) == (2 * PxUnit) \div scale2

\* KDecoration3::snapToPixelGrid(value, scale) = std::round(value * scale) / scale
\* (non-negative values: round half up)
snapToPixelGrid(u, scale2) ==
    ((2 * u * scale2 + 2 * PxUnit) \div (4 * PxUnit)) * pixelSize(scale2)

\* ------------------------------------------------------------- Metrics
TitleBar_TopMargin == 2
TitleBar_BottomMargin == 2
TitleBar_SideMargin == 2
TitleBar_ButtonSpacing == 2

\* ------------------------------------------------------------ categories
BorderCategories ==
    {"None", "NoSides", "Tiny", "Normal", "Large", "VeryLarge", "Huge",
     "VeryHuge", "Oversized", "Unmapped"}

ButtonSizes == {"Tiny", "Small", "Default", "Large", "VeryLarge", "Unmapped"}

TitleAlignments == {"AlignLeft", "AlignRight", "AlignCenter", "AlignCenterFullWidth"}

ButtonTypes ==
    {"Menu", "ApplicationMenu", "OnAllDesktops", "Minimize", "Maximize", "Close",
     "ContextHelp", "Shade", "KeepBelow", "KeepAbove", "Spacer"}

Edges == {"Left", "Top", "Right", "Bottom"}

VARIABLES
    window,               \* DecoratedWindow: the host's window state
    settings,             \* DecorationSettings: the host's settings
    m_internalSettings,   \* InternalSettings snapshot (theme config)
    borders,              \* Decoration::borders()
    resizeOnlyBorders,    \* Decoration::resizeOnlyBorders()
    titleBar,             \* Decoration::titleBar()
    m_titleRect,
    m_titleBarPath,
    m_windowPath,
    m_opacity,
    m_animation,          \* the decoration's QVariantAnimation
    m_leftButtons,        \* left DecorationButtonGroup
    m_rightButtons,       \* right DecorationButtonGroup
    eventLoop,            \* the host event loop: current turn and queued timers
    iconLoader,           \* KIconLoader::global(): the process-wide custom palette
    hist                  \* observation of the last operation (history only)

vars == <<window, settings, m_internalSettings, borders, resizeOnlyBorders,
          titleBar, m_titleRect, m_titleBarPath, m_windowPath, m_opacity,
          m_animation, m_leftButtons, m_rightButtons, eventLoop, iconLoader, hist>>

\* ================================================================ geometry
Rect(x, y, w, h) == [x |-> x, y |-> y, w |-> w, h |-> h]
Margins(l, t, r, b) == [left |-> l, top |-> t, right |-> r, bottom |-> b]

\* A QPainterPath built by this decoration is empty (cleared) or a rectangle
\* some of whose corners are replaced by arcs of radii rx, ry; subpaths counts
\* the figures added since the path was last cleared.
EmptyPath ==
    [empty |-> TRUE, rect |-> Rect(0, 0, 0, 0), corners |-> {}, rx |-> 0, ry |-> 0,
     subpaths |-> 0]

\* QPainterPath::addRect on a cleared path (a null rect adds nothing)
addRect(r) ==
    IF r.w = 0 /\ r.h = 0 THEN EmptyPath
    ELSE [empty |-> FALSE, rect |-> r, corners |-> {}, rx |-> 0, ry |-> 0, subpaths |-> 1]

\* QPainterPath::addRoundedRect(rect, radius, radius) on a cleared path, of
\* which only the corners in `visible` survive a later clip: the radii are
\* clamped to half the rect, and a radius <= 0 adds a normal rectangle.
addRoundedRectClipped(r, clip, radius, visible) ==
    LET rx == Min(radius, r.w \div 2)
        ry == Min(radius, r.h \div 2)
    IN  IF r.w = 0 /\ r.h = 0 THEN EmptyPath
        ELSE IF rx <= 0 \/ ry <= 0 \/ visible = {} THEN addRect(clip)
        ELSE [empty |-> FALSE, rect |-> clip, corners |-> visible, rx |-> rx, ry |-> ry,
              subpaths |-> 1]

addRoundedRect(r, radius) == addRoundedRectClipped(r, r, radius, {"TL", "TR", "BL", "BR"})

\* QRect::adjusted
adjusted(r, dx1, dy1, dx2, dy2) == Rect(r.x + dx1, r.y + dy1, r.w + dx2 - dx1, r.h + dy2 - dy1)

\* ---- accessors declared in glassdecoration.h
isMaximizedHorizontally(win) == win.maximizedHorizontally
isMaximizedVertically(win) == win.maximizedVertically
isMaximized(win) == win.maximizedHorizontally /\ win.maximizedVertically
isLeftEdge(win) == "Left" \in win.adjacentScreenEdges
isRightEdge(win) == "Right" \in win.adjacentScreenEdges
isTopEdge(win) == "Top" \in win.adjacentScreenEdges
hideTitleBar(ins) == ins.hideTitleBar

\* the category borderSize() switches on
borderCategory(s, ins) == IF ins.maskBorderSize THEN ins.borderSize ELSE s.borderSize
hasNoBorders(s, ins) == borderCategory(s, ins) = "None"
hasNoSideBorders(s, ins) == borderCategory(s, ins) = "NoSides"

\* ---- Decoration::borderSize
baseSizeOf(s, scale2) == Max(pixelSize(scale2), snapToPixelGrid(Px(s.smallSpacing), scale2))

\* switch (m_internalSettings->borderSize())
borderSizeInternal_unknownAsNormal(cat, bottom, baseSize, scale2) ==
    CASE cat = "None" -> 0
      [] cat = "NoSides" -> IF bottom THEN snapToPixelGrid(Max(Px(4), baseSize), scale2) ELSE 0
      [] cat = "Tiny" -> IF bottom THEN snapToPixelGrid(Max(Px(4), baseSize), scale2) ELSE baseSize
      [] cat = "Large" -> baseSize * 3
      [] cat = "VeryLarge" -> baseSize * 4
      [] cat = "Huge" -> baseSize * 5
      [] cat = "VeryHuge" -> baseSize * 6
      [] cat = "Oversized" -> baseSize * 10
      [] OTHER -> baseSize * 2

borderSizeInternal(cat, bottom, baseSize, scale2) ==
    CASE cat = "None" -> 0
      [] cat = "NoSides" -> IF bottom THEN snapToPixelGrid(Max(Px(4), baseSize), scale2) ELSE 0
      [] cat = "Normal" -> baseSize * 2
      [] cat = "Large" -> baseSize * 3
      [] cat = "VeryLarge" -> baseSize * 4
      [] cat = "Huge" -> baseSize * 5
      [] cat = "VeryHuge" -> baseSize * 6
      [] cat = "Oversized" -> baseSize * 10
      [] OTHER -> IF bottom THEN snapToPixelGrid(Max(Px(4), baseSize), scale2) ELSE baseSize

\* switch (settings()->borderSize())
borderSizeHost(cat, bottom, baseSize, scale2) ==
    CASE cat = "None" -> 0
      [] cat = "NoSides" -> IF bottom THEN snapToPixelGrid(Max(Px(4), baseSize), scale2) ELSE 0
      [] cat = "Normal" -> baseSize * 2
      [] cat = "Large" -> baseSize * 3
      [] cat = "VeryLarge" -> baseSize * 4
      [] cat = "Huge" -> baseSize * 5
      [] cat = "VeryHuge" -> baseSize * 6
      [] cat = "Oversized" -> baseSize * 10
      [] OTHER -> IF bottom THEN snapToPixelGrid(Max(Px(4), baseSize), scale2) ELSE baseSize

borderSize(bottom, scale2, s, ins) ==
    IF ins.maskBorderSize
    THEN borderSizeInternal(ins.borderSize, bottom, baseSizeOf(s, scale2), scale2)
    ELSE borderSizeHost(s.borderSize, bottom, baseSizeOf(s, scale2), scale2)

\* ---- Decoration::buttonSize (int result: the product is truncated)
buttonSize(s, ins) ==
    LET baseSize == Px(s.gridUnit)
    IN  CASE ins.buttonSize = "Tiny" -> baseSize
          [] ins.buttonSize = "Small" -> ToInt((baseSize * 3) \div 2)
          [] ins.buttonSize = "Large" -> ToInt((baseSize * 5) \div 2)
          [] ins.buttonSize = "VeryLarge" -> ToInt((baseSize * 7) \div 2)
          [] OTHER -> baseSize * 2

\* ---- Decoration::recalculateBorders: the margins given to setBorders
topBorderOf_keepingTitleHeight(win, s, ins) ==
    0 + snapToPixelGrid(Max(Px(s.fontHeight), buttonSize(s, ins)), win.scale2)
      + snapToPixelGrid(Px(s.smallSpacing * 2) * TitleBar_BottomMargin, win.scale2)

topBorderOf(win, s, ins) ==
    IF hideTitleBar(ins) THEN borderSize(TRUE, win.scale2, s, ins)
    ELSE 0 + snapToPixelGrid(Max(Px(s.fontHeight), buttonSize(s, ins)), win.scale2)
           + snapToPixelGrid(Px(s.smallSpacing * 2) * TitleBar_BottomMargin, win.scale2)

bordersOf(win, s, ins) ==
    Margins(borderSize(FALSE, win.scale2, s, ins),
            topBorderOf(win, s, ins),
            borderSize(FALSE, win.scale2, s, ins),
            borderSize(TRUE, win.scale2, s, ins))

\* ---- Decoration::recalculateBorders: the margins given to setResizeOnlyBorders
resizeOnlyBordersOf(win, s, ins) ==
    LET extSize == snapToPixelGrid(Px(s.largeSpacing), win.scale2)
        extSides == IF hasNoBorders(s, ins)
                    THEN (IF ~isMaximizedHorizontally(win) THEN extSize ELSE 0)
                    ELSE IF hasNoSideBorders(s, ins) /\ ~isMaximizedHorizontally(win)
                         THEN extSize ELSE 0
        extBottom == IF hasNoBorders(s, ins) /\ ~isMaximizedVertically(win) THEN extSize ELSE 0
    IN  Margins(extSides, 0, extSides, extBottom)

\* ---- KDecoration3::Decoration::size() and rect()
sizeOf(win, b) ==
    [w |-> win.width + b.left + b.right,
     h |-> (IF win.shaded THEN 0 ELSE win.height) + b.top + b.bottom]
rectOf(win, b) == Rect(0, 0, sizeOf(win, b).w, sizeOf(win, b).h)

\* ---- Decoration::updateTitleBar: the rect given to setTitleBar
titleBarOf(win, s, b) ==
    LET maximized == isMaximized(win)
        width == IF maximized THEN win.width
                 ELSE win.width - 2 * Px(s.smallSpacing) * TitleBar_SideMargin
        height == IF maximized \/ isTopEdge(win) THEN b.top
                  ELSE b.top - Px(s.smallSpacing) * TitleBar_TopMargin
        x == IF maximized THEN 0 ELSE Px(s.smallSpacing) * TitleBar_SideMargin
        y == IF maximized \/ isTopEdge(win) THEN 0 ELSE Px(s.smallSpacing) * TitleBar_TopMargin
    IN  Rect(x, y, width, height)

\* ---- Decoration::calculateWindowAndTitleBarShapes
\* m_titleRect = QRect(QPoint(0, 0), QSize(size().width(), borderTop())): int fields
titleRectOf(win, b) == Rect(0, 0, ToInt(sizeOf(win, b).w), ToInt(b.top))

\* the title-bar path of lines 274-294, maximized windows taken as normal ones
titleBarPathOf_roundedWhenMaximized(win, s, ins, tr) ==
    LET radius == Px(ins.cornerRadius)
    IN  IF ~s.alphaChannelSupported THEN addRect(tr)
        ELSE addRoundedRect(tr, radius)

\* the title-bar path of lines 274-294, the rounded rect enlarged on the edges
\* that are not at a screen edge
titleBarPathOf_inflatedOnFreeEdges(win, s, ins, tr) ==
    LET radius == Px(ins.cornerRadius)
    IN  IF isMaximized(win) \/ ~s.alphaChannelSupported THEN addRect(tr)
        ELSE IF win.shaded THEN addRoundedRect(tr, radius)
        ELSE IF tr.w = 0 \/ tr.h = 0 THEN EmptyPath
        ELSE addRoundedRectClipped(
                 adjusted(tr, IF isLeftEdge(win) THEN 0 ELSE -radius,
                              IF isTopEdge(win) THEN 0 ELSE -radius,
                              IF isRightEdge(win) THEN 0 ELSE radius,
                              radius),
                 tr, radius,
                 {c \in {"TL", "TR"} :
                     /\ isTopEdge(win)
                     /\ (c = "TL" => isLeftEdge(win))
                     /\ (c = "TR" => isRightEdge(win))})

\* the title-bar path of lines 274-294
titleBarPathOf(win, s, ins, tr) ==
    LET radius == Px(ins.cornerRadius)
    IN  IF isMaximized(win) \/ ~s.alphaChannelSupported THEN addRect(tr)
        ELSE IF win.shaded THEN addRoundedRect(tr, radius)
        ELSE IF tr.w = 0 \/ tr.h = 0 THEN EmptyPath
        ELSE addRoundedRectClipped(
                 adjusted(tr, IF isLeftEdge(win) THEN -radius ELSE 0,
                              IF isTopEdge(win) THEN -radius ELSE 0,
                              IF isRightEdge(win) THEN radius ELSE 0,
                              radius),
                 tr, radius,
                 {c \in {"TL", "TR"} :
                     /\ ~isTopEdge(win)
                     /\ (c = "TL" => ~isLeftEdge(win))
                     /\ (c = "TR" => ~isRightEdge(win))})

\* the window path of lines 298-307 without the shaded branch
windowPathOf_ignoringShade(win, s, ins, b, tbp) ==
    IF s.alphaChannelSupported /\ ~isMaximized(win)
    THEN addRoundedRect(rectOf(win, b), Px(ins.cornerRadius))
    ELSE addRect(rectOf(win, b))

\* the window path of lines 298-307 without the clear() of line 298
windowPathOf_notCleared(win, s, ins, b, tbp) ==
    LET fresh == IF ~win.shaded
                 THEN IF s.alphaChannelSupported /\ ~isMaximized(win)
                      THEN addRoundedRect(rectOf(win, b), Px(ins.cornerRadius))
                      ELSE addRect(rectOf(win, b))
                 ELSE tbp
    IN  IF win.shaded THEN fresh
        ELSE [fresh EXCEPT !.subpaths = Min(m_windowPath.subpaths + 1, 3)]

\* the window path of lines 298-307, given the title-bar path now in place
windowPathOf(win, s, ins, b, tbp) ==
    IF ~win.shaded
    THEN IF s.alphaChannelSupported /\ ~isMaximized(win)
         THEN addRoundedRect(rectOf(win, b), Px(ins.cornerRadius))
         ELSE addRect(rectOf(win, b))
    ELSE tbp

\* =============================================================== animation
\* An animated entity is the pair [anim, opacity]: a QVariantAnimation from
\* 0.0 to 1.0 with the InOutQuad easing curve, and the m_opacity its
\* valueChanged signal writes through setOpacity.
DefaultDuration == 250

Animated(anim, opacity) == [anim |-> anim, opacity |-> opacity]

\* new QVariantAnimation(this): stopped, forward, at time 0, default duration
StoppedAnimation ==
    [state |-> "Stopped", direction |-> "Forward", currentTime |-> 0, duration |-> DefaultDuration]

\* QEasingCurve::InOutQuad at currentTime / duration, the progress bounded to [0, 1]
easeInOutQuad(t, d) ==
    LET k == Min(t, d)
    IN  IF 2 * k < d THEN (2 * OpacityOne * k * k) \div (d * d)
        ELSE OpacityOne - (2 * OpacityOne * (d - k) * (d - k)) \div (d * d)

\* QVariantAnimationPrivate::recalculateCurrentInterval: the current value
currentValueOf(anim) ==
    IF anim.duration = 0
    THEN (IF anim.direction = "Forward" THEN OpacityOne ELSE 0)
    ELSE easeInOutQuad(anim.currentTime, anim.duration)

\* ---- Decoration::setOpacity / Button::setOpacity, called from valueChanged
setOpacity(a, value) == IF a.opacity = value THEN a ELSE [a EXCEPT !.opacity = value]

\* QAbstractAnimation::setCurrentTime (loopCount 1): the value follows the
\* time, and the animation stops itself on reaching the end of its direction
setCurrentTime(a, msecs) ==
    LET dura == a.anim.duration
        t == Min(Max(msecs, 0), Max(dura, 0))
        moved == [a.anim EXCEPT !.currentTime = t]
        atEnd == \/ (moved.direction = "Forward" /\ t = dura)
                 \/ (moved.direction = "Backward" /\ t = 0)
    IN  setOpacity([a EXCEPT !.anim = [moved EXCEPT !.state = IF atEnd THEN "Stopped" ELSE @]],
                   currentValueOf(moved))

\* QAbstractAnimation::setDirection
setDirection(a, direction) ==
    IF a.anim.direction = direction THEN a
    ELSE [a EXCEPT !.anim.direction = direction,
                   !.anim.currentTime =
                       IF a.anim.state = "Stopped"
                       THEN (IF direction = "Backward" THEN a.anim.duration ELSE 0)
                       ELSE @]

\* QAbstractAnimation::start: a stopped animation is rewound to the start of
\* its direction, set Running and its value updated
start(a) ==
    IF a.anim.state = "Running" THEN a
    ELSE setCurrentTime(
             [a EXCEPT !.anim.state = "Running",
                       !.anim.currentTime = IF a.anim.direction = "Forward" THEN 0
                                            ELSE a.anim.duration],
             IF a.anim.direction = "Forward" THEN 0 ELSE a.anim.duration)

\* QVariantAnimation::setDuration: the value is recomputed for the new duration
setDuration(a, msecs) ==
    IF a.anim.duration = msecs THEN a
    ELSE setOpacity([a EXCEPT !.anim.duration = msecs],
                    currentValueOf([a.anim EXCEPT !.duration = msecs]))

\* the animation timer: dt of time passes for a running animation
advance(a, dt) ==
    IF a.anim.state # "Running" THEN a
    ELSE setCurrentTime(a, IF a.anim.direction = "Forward" THEN a.anim.currentTime + dt
                           ELSE a.anim.currentTime - dt)

\* ---- Decoration::updateAnimationState
updateAnimationState_restarting(a, ins, active) ==
    IF ins.animationsEnabled
    THEN LET directed == setDirection(a, IF active THEN "Forward" ELSE "Backward")
         IN  start([directed EXCEPT !.anim.state = "Stopped"])
    ELSE a

\* updateAnimationState that starts nothing when the progress is already where
\* the animation is heading
updateAnimationState_idleAtTarget(a, ins, active) ==
    IF ins.animationsEnabled
    THEN LET directed == setDirection(a, IF active THEN "Forward" ELSE "Backward")
         IN  IF /\ directed.anim.state # "Running"
                /\ a.opacity # (IF active THEN OpacityOne ELSE 0)
             THEN start(directed) ELSE directed
    ELSE a

updateAnimationState(a, ins, active) ==
    IF ins.animationsEnabled
    THEN LET directed == setDirection(a, IF active THEN "Forward" ELSE "Backward")
         IN  IF directed.anim.state # "Running" THEN start(directed) ELSE directed
    ELSE a

\* ---- Button::updateAnimationState(hovered), the decoration being alive
buttonUpdateAnimationState(a, ins, hovered) ==
    IF ~ins.animationsEnabled THEN a
    ELSE LET directed == setDirection(a, IF hovered THEN "Forward" ELSE "Backward")
         IN  IF directed.anim.state # "Running" THEN start(directed) ELSE directed

\* ============================================================ button layout
Size(w, h) == [w |-> w, h |-> h]
Point(x, y) == [x |-> x, y |-> y]

\* ---- Button::reconfigure: the preferred size
preferredSizeOf(type, s, ins) ==
    IF type = "Spacer" THEN Size(buttonSize(s, ins) \div 2, buttonSize(s, ins))
    ELSE Size(buttonSize(s, ins), buttonSize(s, ins))

\* ---- Button::Button(QObject *, const QVariantList &)
NewButton(type, s, ins) ==
    [type |-> type, decoration |-> TRUE, hovered |-> FALSE, pressed |-> FALSE, checked |-> FALSE,
     preferredSize |-> preferredSizeOf(type, s, ins),
     geometry |-> Rect(0, 0, preferredSizeOf(type, s, ins).w, preferredSizeOf(type, s, ins).h),
     flag |-> "FlagNone", m_padding |-> Margins(0, 0, 0, 0), offset |-> Point(0, 0),
     iconSize |-> Size(0, 0),
     m_opacity |-> setDuration(Animated(StoppedAnimation, 0), ins.animationsDuration).opacity,
     m_animation |-> setDuration(Animated(StoppedAnimation, 0), ins.animationsDuration).anim]

RECURSIVE SumWidth(_)
SumWidth(bs) == IF bs = <<>> THEN 0 ELSE Head(bs).geometry.w + SumWidth(Tail(bs))

RECURSIVE MaxHeight(_)
MaxHeight(bs) == IF bs = <<>> THEN 0 ELSE Max(Head(bs).geometry.h, MaxHeight(Tail(bs)))

\* ---- KDecoration3::DecorationButtonGroup::Private::updateLayout: the group
\* takes the size of its buttons and places them in a row from its position
updateLayout(g) ==
    IF g.buttons = <<>> THEN g
    ELSE LET n == Len(g.buttons)
             width == SumWidth(g.buttons) + (n - 1) * g.spacing
             xOf(i) == g.geometry.x + SumWidth(SubSeq(g.buttons, 1, i - 1)) + (i - 1) * g.spacing
         IN  [g EXCEPT
                 !.geometry = Rect(g.geometry.x, g.geometry.y, width, MaxHeight(g.buttons)),
                 !.buttons = [i \in 1..n |->
                     [g.buttons[i] EXCEPT !.geometry =
                         Rect(xOf(i), g.geometry.y, g.buttons[i].geometry.w, g.buttons[i].geometry.h)]]]

setSpacing(g, spacing) == updateLayout([g EXCEPT !.spacing = spacing])
setPos(g, x, y) == updateLayout([g EXCEPT !.geometry = Rect(x, y, g.geometry.w, g.geometry.h)])

\* ---- Decoration::createButtons: a group of freshly created buttons
NewGroup(types, s, ins) ==
    updateLayout([buttons |-> [i \in 1..Len(types) |-> NewButton(types[i], s, ins)],
                  spacing |-> 0, geometry |-> Rect(0, 0, 0, 0)])

\* ---- Decoration::updateButtonsGeometry, lines 469-482: every button
resetButton_offsetAwayFromTopEdge(btn, win, s) ==
    LET verticalOffset == IF isTopEdge(win) THEN 0 ELSE Px(s.smallSpacing) * TitleBar_TopMargin
        bHeight == ToInt(btn.preferredSize.h + verticalOffset)
        bWidth == ToInt(btn.preferredSize.w)
    IN  [btn EXCEPT !.geometry = Rect(0, 0, bWidth, bHeight),
                    !.m_padding = Margins(0, verticalOffset, 0, 0),
                    !.offset = Point(0, verticalOffset),
                    !.iconSize = Size(bHeight, bWidth)]

resetButton(btn, win, s) ==
    LET verticalOffset == IF isTopEdge(win) THEN Px(s.smallSpacing) * TitleBar_TopMargin ELSE 0
        bHeight == ToInt(btn.preferredSize.h + verticalOffset)
        bWidth == ToInt(btn.preferredSize.w)
    IN  [btn EXCEPT !.geometry = Rect(0, 0, bWidth, bHeight),
                    !.m_padding = Margins(0, verticalOffset, 0, 0),
                    !.offset = Point(0, verticalOffset),
                    !.iconSize = Size(bHeight, bWidth)]

resetGroup(g, win, s) ==
    updateLayout([g EXCEPT !.buttons = [i \in 1..Len(g.buttons) |-> resetButton(g.buttons[i], win, s)]])

\* ---- lines 485-508: the left group
layoutLeft_ignoringBorder(g0, win, s, b) ==
    LET g == resetGroup(g0, win, s)
        vPadding == IF isTopEdge(win) THEN 0 ELSE Px(s.smallSpacing) * TitleBar_TopMargin
        hPadding == Px(s.smallSpacing) * TitleBar_SideMargin
        sp == setSpacing(g, Px(s.smallSpacing) * TitleBar_ButtonSpacing)
    IN  IF g.buttons = <<>> THEN g ELSE setPos(sp, hPadding, vPadding)

layoutLeft(g0, win, s, b) ==
    LET g == resetGroup(g0, win, s)
        vPadding == IF isTopEdge(win) THEN 0 ELSE Px(s.smallSpacing) * TitleBar_TopMargin
        hPadding == Px(s.smallSpacing) * TitleBar_SideMargin
        sp == setSpacing(g, Px(s.smallSpacing) * TitleBar_ButtonSpacing)
        front == sp.buttons[1]
        widened == updateLayout([sp EXCEPT !.buttons[1] =
                      [front EXCEPT
                          !.geometry = adjusted(front.geometry, -hPadding, 0, 0, 0),
                          !.flag = "FlagFirstInList",
                          !.m_padding = [front.m_padding EXCEPT !.left = hPadding],
                          !.iconSize = front.preferredSize]])
    IN  IF g.buttons = <<>> THEN g
        ELSE IF isLeftEdge(win) THEN setPos(widened, 0, vPadding)
        ELSE setPos(sp, hPadding + b.left, vPadding)

\* ---- lines 511-533: the right group
layoutRight(g0, win, s, b) ==
    LET g == resetGroup(g0, win, s)
        vPadding == IF isTopEdge(win) THEN 0 ELSE Px(s.smallSpacing) * TitleBar_TopMargin
        hPadding == Px(s.smallSpacing) * TitleBar_SideMargin
        sp == setSpacing(g, Px(s.smallSpacing) * TitleBar_ButtonSpacing)
        n == Len(sp.buttons)
        back == sp.buttons[n]
        widened == updateLayout([sp EXCEPT !.buttons[n] =
                      [back EXCEPT
                          !.geometry = adjusted(back.geometry, 0, 0, hPadding, 0),
                          !.flag = "FlagFirstInList",
                          !.m_padding = [back.m_padding EXCEPT !.right = hPadding],
                          !.iconSize = back.preferredSize]])
    IN  IF g.buttons = <<>> THEN g
        ELSE IF isRightEdge(win)
             THEN setPos(widened, sizeOf(win, b).w - widened.geometry.w, vPadding)
             ELSE setPos(sp, sizeOf(win, b).w - sp.geometry.w - hPadding - b.right, vPadding)

\* ================================================================= caption
\* ---- Decoration::captionHeight (int result)
captionHeight(s, ins, b) == IF hideTitleBar(ins) THEN ToInt(b.top) ELSE buttonSize(s, ins)

\* ---- Decoration::captionRect, lines 599-611
leftOffsetOf(win, s, L) ==
    snapToPixelGrid(IF L.buttons = <<>> THEN TitleBar_SideMargin * Px(s.smallSpacing)
                    ELSE L.geometry.x + L.geometry.w + TitleBar_SideMargin * Px(s.smallSpacing),
                    win.scale2)

rightOffsetOf(win, s, b, R) ==
    snapToPixelGrid(IF R.buttons = <<>> THEN TitleBar_SideMargin * Px(s.smallSpacing)
                    ELSE sizeOf(win, b).w - R.geometry.x + TitleBar_SideMargin * Px(s.smallSpacing),
                    win.scale2)

yOffsetOf(win, s) == snapToPixelGrid(Px(s.smallSpacing) * TitleBar_TopMargin, win.scale2)

maxRectOf(win, s, ins, b, L, R) ==
    Rect(leftOffsetOf(win, s, L), yOffsetOf(win, s),
         sizeOf(win, b).w - leftOffsetOf(win, s, L) - rightOffsetOf(win, s, b, R),
         captionHeight(s, ins, b))

\* const QRectF fullRect = QRect(0, yOffset, size().width(), captionHeight()): int fields
fullRectOf(win, s, ins, b) ==
    Rect(0, ToInt(yOffsetOf(win, s)), ToInt(sizeOf(win, b).w), captionHeight(s, ins, b))

\* the caption's bounding rect moved to the centre of the decoration: its left
\* and right edges (lines 627-632)
boundingLeft(win, b) == (sizeOf(win, b).w - win.captionWidth) \div 2
boundingRight(win, b) == boundingLeft(win, b) + win.captionWidth

Placed(rect, alignment) == [rect |-> rect, alignment |-> alignment]

\* ---- lines 624-640: case InternalSettings::AlignCenterFullWidth
captionFullWidth_touchingIsViolation(win, s, ins, b, L, R) ==
    IF boundingLeft(win, b) <= leftOffsetOf(win, s, L)
    THEN Placed(maxRectOf(win, s, ins, b, L, R), "AlignVCenter|AlignLeft")
    ELSE IF boundingRight(win, b) >= sizeOf(win, b).w - rightOffsetOf(win, s, b, R)
    THEN Placed(maxRectOf(win, s, ins, b, L, R), "AlignVCenter|AlignRight")
    ELSE Placed(fullRectOf(win, s, ins, b), "AlignCenter")

captionFullWidth(win, s, ins, b, L, R) ==
    IF boundingLeft(win, b) < leftOffsetOf(win, s, L)
    THEN Placed(maxRectOf(win, s, ins, b, L, R), "AlignVCenter|AlignLeft")
    ELSE IF boundingRight(win, b) > sizeOf(win, b).w - rightOffsetOf(win, s, b, R)
    THEN Placed(maxRectOf(win, s, ins, b, L, R), "AlignVCenter|AlignRight")
    ELSE Placed(fullRectOf(win, s, ins, b), "AlignCenter")

\* ---- Decoration::captionRect
captionRect(win, s, ins, b, L, R) ==
    IF hideTitleBar(ins) THEN Placed(Rect(0, 0, 0, 0), "AlignCenter")
    ELSE CASE ins.titleAlignment = "AlignLeft" ->
                Placed(maxRectOf(win, s, ins, b, L, R), "AlignVCenter|AlignLeft")
           [] ins.titleAlignment = "AlignRight" ->
                Placed(maxRectOf(win, s, ins, b, L, R), "AlignVCenter|AlignRight")
           [] ins.titleAlignment = "AlignCenter" ->
                Placed(maxRectOf(win, s, ins, b, L, R), "AlignCenter")
           [] OTHER -> captionFullWidth(win, s, ins, b, L, R)

\* ================================================================= colours
\* A QColor is kept as a term: invalid, a named colour constant, a colour of
\* the host's scheme, or a KColorUtils::mix of two colours.
InvalidColor == [valid |-> FALSE, kind |-> "invalid", name |-> "", alpha |-> 0, of |-> <<>>, bias |-> <<0, 1>>]
NamedColor(name, alpha) ==
    [valid |-> TRUE, kind |-> "named", name |-> name, alpha |-> alpha, of |-> <<>>, bias |-> <<0, 1>>]
HostColor(group, role) ==
    [valid |-> TRUE, kind |-> "host", name |-> group \o role, alpha |-> 255, of |-> <<>>, bias |-> <<0, 1>>]

\* KColorUtils::mix(c1, c2, bias), bias = num / den
mix(c1, c2, num, den) ==
    IF num <= 0 THEN c1
    ELSE IF num >= den THEN c2
    ELSE [valid |-> TRUE, kind |-> "mix", name |-> "", alpha |-> 255, of |-> <<c1, c2>>,
          bias |-> <<num, den>>]

\* ---- Decoration::titleBarColor
titleBarColor(win, ins, a) ==
    IF hideTitleBar(ins) THEN HostColor("Inactive", "TitleBar")
    ELSE IF a.anim.state = "Running"
    THEN mix(HostColor("Inactive", "TitleBar"), HostColor("Active", "TitleBar"), a.opacity, OpacityOne)
    ELSE HostColor(IF win.active THEN "Active" ELSE "Inactive", "TitleBar")

\* ---- Decoration::fontColor
fontColor(win) == HostColor(IF win.active THEN "Active" ELSE "Inactive", "Foreground")

\* ---- Button::backgroundColor; hasDecoration is qobject_cast<Decoration *>(decoration())
backgroundColor_hoverWhenInactive(btn, hasDecoration, win, ins, a) ==
    IF ~hasDecoration THEN InvalidColor
    ELSE IF btn.type \in {"Close", "Minimize", "Maximize"}
    THEN LET alpha == IF btn.hovered THEN 192 ELSE 128
         IN  IF ~win.active THEN NamedColor("LightGray", alpha)
             ELSE IF btn.pressed
             THEN NamedColor(CASE btn.type = "Close" -> "Red" [] btn.type = "Minimize" -> "Yellow"
                               [] OTHER -> "Green", 255)
             ELSE NamedColor(CASE btn.type = "Close" -> "Red" [] btn.type = "Minimize" -> "Yellow"
                               [] OTHER -> "Green", alpha)
    ELSE IF win.active /\ btn.pressed
    THEN mix(titleBarColor(win, ins, a), fontColor(win), 3, 10)
    ELSE InvalidColor

backgroundColor(btn, hasDecoration, win, ins, a) ==
    IF ~hasDecoration THEN InvalidColor
    ELSE IF win.active
    THEN IF btn.pressed
         THEN CASE btn.type = "Close" -> NamedColor("Red", 255)
                [] btn.type = "Minimize" -> NamedColor("Yellow", 255)
                [] btn.type = "Maximize" -> NamedColor("Green", 255)
                [] OTHER -> mix(titleBarColor(win, ins, a), fontColor(win), 3, 10)
         ELSE LET alpha == IF btn.hovered THEN 192 ELSE 128
              IN  CASE btn.type = "Close" -> NamedColor("Red", alpha)
                    [] btn.type = "Minimize" -> NamedColor("Yellow", alpha)
                    [] btn.type = "Maximize" -> NamedColor("Green", alpha)
                    [] OTHER -> InvalidColor
    ELSE CASE btn.type \in {"Close", "Minimize", "Maximize"} -> NamedColor("LightGray", 128)
           [] OTHER -> InvalidColor

\* ---- Button::foregroundColor with the hover test ahead of the animation's
foregroundColor_hoverBeforeAnimation(btn, hasDecoration, win, ins, a) ==
    IF ~hasDecoration THEN InvalidColor
    ELSE IF btn.pressed THEN titleBarColor(win, ins, a)
    ELSE IF btn.type = "Close" /\ ins.outlineCloseButton THEN titleBarColor(win, ins, a)
    ELSE IF btn.type \in {"KeepBelow", "KeepAbove", "Shade"} /\ btn.checked
    THEN titleBarColor(win, ins, a)
    ELSE IF btn.hovered THEN titleBarColor(win, ins, a)
    ELSE IF btn.m_animation.state = "Running"
    THEN mix(fontColor(win), titleBarColor(win, ins, a), btn.m_opacity, OpacityOne)
    ELSE fontColor(win)

\* ---- Button::foregroundColor (lines 299-324); a is the decoration's
\* animation, the button's own being in btn
foregroundColor(btn, hasDecoration, win, ins, a) ==
    IF ~hasDecoration THEN InvalidColor
    ELSE IF btn.pressed THEN titleBarColor(win, ins, a)
    ELSE IF btn.type = "Close" /\ ins.outlineCloseButton THEN titleBarColor(win, ins, a)
    ELSE IF btn.type \in {"KeepBelow", "KeepAbove", "Shade"} /\ btn.checked
    THEN titleBarColor(win, ins, a)
    ELSE IF btn.m_animation.state = "Running"
    THEN mix(fontColor(win), titleBarColor(win, ins, a), btn.m_opacity, OpacityOne)
    ELSE IF btn.hovered THEN titleBarColor(win, ins, a)
    ELSE fontColor(win)

\* ============================================================ icon palette
\* A QPalette is kept as the palette it was copied from and its WindowText
\* colour; QPalette() is the default-constructed one.
Palette(base, windowText) == [base |-> base, windowText |-> windowText]
DefaultPalette == Palette("default", NamedColor("WindowText", 255))
WindowPalette == Palette("window", NamedColor("WindowText", 255))
HostPalette == Palette("host", NamedColor("WindowText", 255))

\* QPalette::setColor(QPalette::WindowText, color)
setColor(palette, color) == [palette EXCEPT !.windowText = color]

\* KIconLoader::global(): whether a custom palette is set, and which;
\* customPalette() of a loader without one is QPalette()
NoCustomPalette == [customColors |-> FALSE, palette |-> DefaultPalette]
setCustomPalette(loader, palette) == [customColors |-> TRUE, palette |-> palette]
customPalette(loader) == loader.palette
resetPalette(loader) == NoCustomPalette

\* ---- Button::paint (lines 116-152): the icon loader it leaves behind; only
\* the Menu button touches it
buttonPaint(btn, loader, win) ==
    LET activePalette == customPalette(loader)
        palette == setColor(WindowPalette, fontColor(win))
        painting == setCustomPalette(loader, palette)
    IN  IF ~btn.decoration THEN loader
        ELSE IF btn.type = "Menu"
        THEN IF activePalette = DefaultPalette THEN resetPalette(painting)
             ELSE setCustomPalette(painting, palette)
        ELSE loader

\* ================================================================== shadows
\* ---- struct ShadowParams and CompositeShadowParams (lines 57-95); an
\* opacity is kept in tenths
ShadowParams(offset, radius, opacity) == [offset |-> offset, radius |-> radius, opacity |-> opacity]

CompositeShadowParams(offset, shadow1, shadow2) ==
    [offset |-> offset, shadow1 |-> shadow1, shadow2 |-> shadow2]

\* CompositeShadowParams() = default, over ShadowParams()
NoShadow ==
    CompositeShadowParams(Point(0, 0), ShadowParams(Point(0, 0), 0, 0), ShadowParams(Point(0, 0), 0, 0))

\* ---- const CompositeShadowParams s_shadowParams[] (lines 97-108), from index 0
s_shadowParams ==
    << NoShadow,
       CompositeShadowParams(Point(0, 4), ShadowParams(Point(0, 0), 16, 10), ShadowParams(Point(0, -2), 8, 4)),
       CompositeShadowParams(Point(0, 8), ShadowParams(Point(0, 0), 32, 9), ShadowParams(Point(0, -4), 16, 3)),
       CompositeShadowParams(Point(0, 12), ShadowParams(Point(0, 0), 48, 8), ShadowParams(Point(0, -6), 24, 2)),
       CompositeShadowParams(Point(0, 16), ShadowParams(Point(0, 0), 64, 7), ShadowParams(Point(0, -8), 32, 1)) >>

\* enum InternalSettings::EnumShadowSize
ShadowNone == 0
ShadowSmall == 1
ShadowMedium == 2
ShadowLarge == 3
ShadowVeryLarge == 4

\* ---- lookupShadowParams(int size) (lines 110-127)
lookupShadowParams_noneWhenUnknown(size) ==
    IF size \in {ShadowNone, ShadowSmall, ShadowMedium, ShadowLarge, ShadowVeryLarge}
    THEN s_shadowParams[size + 1]
    ELSE s_shadowParams[1]

lookupShadowParams(size) ==
    CASE size = ShadowNone -> s_shadowParams[1]
      [] size = ShadowSmall -> s_shadowParams[2]
      [] size = ShadowMedium -> s_shadowParams[3]
      [] size = ShadowLarge -> s_shadowParams[4]
      [] size = ShadowVeryLarge -> s_shadowParams[5]
      [] OTHER -> s_shadowParams[4]

\* =========================================================== state machine
\* ---- the state after Decoration::init(): reconfigure(), updateTitleBar(),
\* createButtons(); calculateWindowAndTitleBarShapes has not run yet
NothingPainted ==
    [caption |-> Placed(Rect(0, 0, 0, 0), "none"), pen |-> InvalidColor,
     button |-> 0, color |-> InvalidColor, length |-> 0, size |-> 0, shadow |-> NoShadow]

\* what the last operation was and did: its name and argument, the layout
\* pass it ran, the calls of updateButtonsGeometryDelayed of the turn
\* (requested) and the timers queued before the turn (base), whether it
\* flipped the state of an animation in flight, what it returned or drew
\* (out), and the number of signals the host may still deliver (budget)
NoHistory ==
    [op |-> "init", arg |-> FALSE, streak |-> 0, sync |-> "none", layout |-> FALSE,
     requested |-> 0, base |-> 0, inFlight |-> FALSE, budget |-> 0, out |-> NothingPainted]

InitWith(win, s, ins, h) ==
    /\ window = win
    /\ settings = s
    /\ m_internalSettings = ins
    /\ borders = bordersOf(win, s, ins)
    /\ resizeOnlyBorders = resizeOnlyBordersOf(win, s, ins)
    /\ titleBar = titleBarOf(win, s, bordersOf(win, s, ins))
    /\ m_titleRect = Rect(0, 0, 0, 0)
    /\ m_titleBarPath = EmptyPath
    /\ m_windowPath = EmptyPath
    /\ m_opacity = setDuration(Animated(StoppedAnimation, 0), ins.animationsDuration).opacity
    /\ m_animation = setDuration(Animated(StoppedAnimation, 0), ins.animationsDuration).anim
    /\ m_leftButtons = layoutLeft(NewGroup(s.buttonsLeft, s, ins), win, s, bordersOf(win, s, ins))
    /\ m_rightButtons = layoutRight(NewGroup(s.buttonsRight, s, ins), win, s, bordersOf(win, s, ins))
    /\ eventLoop = [inTurn |-> FALSE, pending |-> 0]
    /\ iconLoader = NoCustomPalette
    /\ hist = h

InitFrom(win, s, ins) == InitWith(win, s, ins, NoHistory)

\* ---- Decoration::updateButtonsGeometryDelayed (lines 457-460):
\* QTimer::singleShot(0, this, &Decoration::updateButtonsGeometry) queues one
\* more timer, whatever is queued already
updateButtonsGeometryDelayed_unlessPending(pending) == IF pending > 0 THEN pending ELSE 1

updateButtonsGeometryDelayed(pending) == pending + 1

\* n calls of updateButtonsGeometryDelayed
RECURSIVE queued(_, _)
queued(pending, n) ==
    IF n = 0 THEN pending ELSE queued(updateButtonsGeometryDelayed(pending), n - 1)

\* history of a change of the inputs of the shape calculation
syncAfterChange(h) == IF h.sync \in {"none", "ok"} THEN "dirty" ELSE "broken"

\* ---- a signal of the host delivered to the slots connected in
\* Decoration::init (lines 213-254), in connection order: recalculateBorders
\* (whose setBorders emits bordersChanged: updateTitleBar and
\* updateButtonsGeometryDelayed), updateTitleBar, updateButtonsGeometry,
\* updateButtonsGeometryDelayed
Deliver(win2, s2, ins2, L2, R2, A2, recalc, updTitle, layoutNow, nDelayed) ==
    LET nb == IF recalc THEN bordersOf(win2, s2, ins2) ELSE borders
        bordersChanged == nb # borders
        requests == nDelayed + (IF bordersChanged THEN 1 ELSE 0)
        n == Len(m_leftButtons.buttons)
        flipped ==
            \/ win2.active # window.active /\ m_animation.state = "Running"
            \/ /\ Len(L2.buttons) = n
               /\ \E i \in 1..n : /\ L2.buttons[i].hovered # m_leftButtons.buttons[i].hovered
                                  /\ m_leftButtons.buttons[i].m_animation.state = "Running"
    IN  /\ eventLoop.pending + requests <= MaxPending
        /\ window' = win2
        /\ settings' = s2
        /\ m_internalSettings' = ins2
        /\ borders' = nb
        /\ resizeOnlyBorders' = IF recalc THEN resizeOnlyBordersOf(win2, s2, ins2)
                                ELSE resizeOnlyBorders
        /\ titleBar' = IF updTitle \/ bordersChanged THEN titleBarOf(win2, s2, nb) ELSE titleBar
        /\ UNCHANGED <<m_titleRect, iconLoader, m_titleBarPath, m_windowPath>>
        /\ m_opacity' = A2.opacity
        /\ m_animation' = A2.anim
        /\ m_leftButtons' = IF layoutNow THEN layoutLeft(L2, win2, s2, nb) ELSE L2
        /\ m_rightButtons' = IF layoutNow THEN layoutRight(R2, win2, s2, nb) ELSE R2
        /\ eventLoop' = [inTurn |-> TRUE, pending |-> queued(eventLoop.pending, requests)]
        /\ hist' = [op |-> "signal", arg |-> FALSE, streak |-> 0,
                    inFlight |-> flipped, budget |-> Max(hist.budget - 1, 0),
                    sync |-> IF <<win2, s2, ins2>> # <<window, settings, m_internalSettings>>
                             THEN syncAfterChange(hist) ELSE hist.sync,
                    layout |-> layoutNow,
                    requested |-> (IF eventLoop.inTurn THEN hist.requested ELSE 0) + requests,
                    base |-> IF eventLoop.inTurn THEN hist.base ELSE eventLoop.pending,
                    out |-> hist.out]

Unanimated == Animated(m_animation, m_opacity)

\* ---- DecoratedWindow::adjacentScreenEdgesChanged (lines 229, 239, 250)
AdjacentScreenEdgesChanged(e) ==
    /\ e # window.adjacentScreenEdges
    /\ Deliver([window EXCEPT !.adjacentScreenEdges = e], settings, m_internalSettings,
               m_leftButtons, m_rightButtons, Unanimated,
               TRUE, TRUE, TRUE, 0)

\* ---- DecoratedWindow::maximizedHorizontallyChanged, maximizedVerticallyChanged
\* and maximizedChanged (lines 230, 231, 244, 249)
MaximizedChanged(h, v) ==
    /\ <<h, v>> # <<window.maximizedHorizontally, window.maximizedVertically>>
    /\ LET win2 == [window EXCEPT !.maximizedHorizontally = h, !.maximizedVertically = v]
           both == isMaximized(win2) # isMaximized(window)
       IN  Deliver(win2, settings, m_internalSettings, m_leftButtons, m_rightButtons,
                   Unanimated, TRUE, both, both, 0)

\* ---- DecoratedWindow::shadedChanged (lines 232, 251)
ShadedChanged(b) ==
    /\ b # window.shaded
    /\ Deliver([window EXCEPT !.shaded = b], settings, m_internalSettings,
               m_leftButtons, m_rightButtons, Unanimated,
               TRUE, FALSE, TRUE, 0)

\* ---- DecoratedWindow::widthChanged (lines 243, 248) and sizeChanged (246)
WidthChanged(w) ==
    /\ w # window.width
    /\ Deliver([window EXCEPT !.width = w], settings, m_internalSettings,
               m_leftButtons, m_rightButtons, Unanimated,
               FALSE, TRUE, TRUE, 0)

\* ---- DecorationSettings::alphaChannelSupportedChanged: no slot is connected
AlphaChannelSupportedChanged(b) ==
    /\ b # settings.alphaChannelSupported
    /\ Deliver(window, [settings EXCEPT !.alphaChannelSupported = b], m_internalSettings,
               m_leftButtons, m_rightButtons, Unanimated,
               FALSE, FALSE, FALSE, 0)

\* ---- Decoration::calculateWindowAndTitleBarShapes(windowShapeOnly)
CalculateWindowAndTitleBarShapes(windowShapeOnly) ==
    LET title == ~windowShapeOnly \/ window.shaded
        tr == IF title THEN titleRectOf(window, borders) ELSE m_titleRect
        tbp == IF title THEN titleBarPathOf(window, settings, m_internalSettings, tr)
               ELSE m_titleBarPath
    IN  /\ m_titleRect' = tr
        /\ m_titleBarPath' = tbp
        /\ m_windowPath' = windowPathOf(window, settings, m_internalSettings, borders, tbp)
        /\ hist' = [hist EXCEPT !.op = "calculateWindowAndTitleBarShapes",
                                !.arg = windowShapeOnly, !.streak = 0, !.layout = FALSE,
                                !.inFlight = FALSE,
                                !.sync = IF hist.sync = "dirty" THEN "ok" ELSE @]
        /\ UNCHANGED <<window, settings, m_internalSettings, borders, resizeOnlyBorders,
                       titleBar, m_opacity, m_animation, m_leftButtons, m_rightButtons,
                       eventLoop, iconLoader>>

\* ---- the geometry recomputation: Decoration::recalculateBorders followed by
\* Decoration::calculateWindowAndTitleBarShapes(windowShapeOnly), nothing else
\* happening in between
GeometryRecomputation(windowShapeOnly) ==
    LET nb == bordersOf(window, settings, m_internalSettings)
        bordersChanged == nb # borders
        title == ~windowShapeOnly \/ window.shaded
        tr == IF title THEN titleRectOf(window, nb) ELSE m_titleRect
        tbp == IF title THEN titleBarPathOf(window, settings, m_internalSettings, tr)
               ELSE m_titleBarPath
    IN  /\ eventLoop.pending + (IF bordersChanged THEN 1 ELSE 0) <= MaxPending
        /\ borders' = nb
        /\ resizeOnlyBorders' = resizeOnlyBordersOf(window, settings, m_internalSettings)
        /\ titleBar' = IF bordersChanged THEN titleBarOf(window, settings, nb) ELSE titleBar
        /\ m_titleRect' = tr
        /\ m_titleBarPath' = tbp
        /\ m_windowPath' = windowPathOf(window, settings, m_internalSettings, nb, tbp)
        /\ eventLoop' = [eventLoop EXCEPT !.pending = queued(@, IF bordersChanged THEN 1 ELSE 0)]
        /\ hist' = [hist EXCEPT !.op = "geometryRecomputation", !.arg = windowShapeOnly,
                                !.streak = IF hist.op = "geometryRecomputation"
                                              /\ hist.arg = windowShapeOnly
                                           THEN Min(hist.streak + 1, 2) ELSE 1,
                                !.layout = FALSE, !.inFlight = FALSE,
                                !.sync = IF hist.sync = "dirty" THEN "ok" ELSE @]
        /\ UNCHANGED <<window, settings, m_internalSettings, m_opacity, m_animation,
                       m_leftButtons, m_rightButtons, iconLoader>>

\* ---- DecorationSettings::borderSizeChanged (line 213)
BorderSizeChanged(cat) ==
    /\ cat # settings.borderSize
    /\ Deliver(window, [settings EXCEPT !.borderSize = cat], m_internalSettings,
               m_leftButtons, m_rightButtons, Unanimated,
               TRUE, FALSE, FALSE, 0)

\* ---- DecorationSettings::fontChanged (line 216)
FontChanged(fontHeight) ==
    /\ fontHeight # settings.fontHeight
    /\ Deliver(window, [settings EXCEPT !.fontHeight = fontHeight], m_internalSettings,
               m_leftButtons, m_rightButtons, Unanimated,
               TRUE, FALSE, FALSE, 0)

\* ---- DecorationSettings::spacingChanged (lines 217, 220)
SpacingChanged_layingOutAtOnce(smallSpacing) ==
    /\ smallSpacing # settings.smallSpacing
    /\ Deliver(window, [settings EXCEPT !.smallSpacing = smallSpacing], m_internalSettings,
               m_leftButtons, m_rightButtons, Unanimated,
               TRUE, FALSE, TRUE, 0)

SpacingChanged(smallSpacing) ==
    /\ smallSpacing # settings.smallSpacing
    /\ Deliver(window, [settings EXCEPT !.smallSpacing = smallSpacing], m_internalSettings,
               m_leftButtons, m_rightButtons, Unanimated,
               TRUE, FALSE, FALSE, 1)

\* the DecorationButtonGroup deletes its buttons and creates the new list
recreated(g, types, s, ins) ==
    updateLayout([g EXCEPT !.buttons = [i \in 1..Len(types) |-> NewButton(types[i], s, ins)]])

\* ---- DecorationSettings::decorationButtonsLeftChanged (line 221)
DecorationButtonsLeftChanged(types) ==
    /\ types # settings.buttonsLeft
    /\ Deliver(window, [settings EXCEPT !.buttonsLeft = types], m_internalSettings,
               recreated(m_leftButtons, types, settings, m_internalSettings), m_rightButtons,
               Unanimated, FALSE, FALSE, FALSE, 1)

\* ---- DecorationSettings::decorationButtonsRightChanged (line 222)
DecorationButtonsRightChanged(types) ==
    /\ types # settings.buttonsRight
    /\ Deliver(window, [settings EXCEPT !.buttonsRight = types], m_internalSettings,
               m_leftButtons, recreated(m_rightButtons, types, settings, m_internalSettings),
               Unanimated, FALSE, FALSE, FALSE, 1)

\* ---- Button::reconfigure (lines 390-408): nothing is done without decoration()
buttonReconfigure(btn, s, ins) ==
    LET a == setDuration(Animated(btn.m_animation, btn.m_opacity), ins.animationsDuration)
    IN  IF ~btn.decoration THEN btn
        ELSE [btn EXCEPT !.preferredSize = preferredSizeOf(btn.type, s, ins),
                         !.m_animation = a.anim, !.m_opacity = a.opacity]

reconfigured(g, s, ins) ==
    [g EXCEPT !.buttons = [i \in 1..Len(g.buttons) |-> buttonReconfigure(g.buttons[i], s, ins)]]

\* ---- DecorationSettings::reconfigured (lines 225-227 and glassbutton.cpp
\* line 54): Decoration::reconfigure, updateButtonsGeometryDelayed, and
\* Button::reconfigure of every button
Reconfigured(ins) ==
    Deliver(window, settings, ins,
            reconfigured(m_leftButtons, settings, ins),
            reconfigured(m_rightButtons, settings, ins),
            setDuration(Unanimated, ins.animationsDuration),
            TRUE, FALSE, FALSE, 1)

\* ---- DecoratedWindow::activeChanged (lines 238, 242)
ActiveChanged(active) ==
    /\ active # window.active
    /\ Deliver([window EXCEPT !.active = active], settings, m_internalSettings,
               m_leftButtons, m_rightButtons,
               updateAnimationState(Unanimated, m_internalSettings, active),
               FALSE, FALSE, FALSE, 0)

\* ---- DecorationButton::hoveredChanged of button i of the left group
\* (glassbutton.cpp line 55)
hoverButton(btn, ins, hovered) ==
    LET a == buttonUpdateAnimationState(Animated(btn.m_animation, btn.m_opacity), ins, hovered)
    IN  IF ~btn.decoration THEN [btn EXCEPT !.hovered = hovered]
        ELSE [btn EXCEPT !.hovered = hovered, !.m_animation = a.anim, !.m_opacity = a.opacity]

HoveredChanged(i, hovered) ==
    /\ i \in 1..Len(m_leftButtons.buttons)
    /\ hovered # m_leftButtons.buttons[i].hovered
    /\ Deliver(window, settings, m_internalSettings,
               [m_leftButtons EXCEPT !.buttons[i] = hoverButton(@, m_internalSettings, hovered)],
               m_rightButtons, Unanimated, FALSE, FALSE, FALSE, 0)

\* ---- DecorationButton::pressedChanged of button i of the left group: no slot
PressedChanged(i, pressed) ==
    /\ i \in 1..Len(m_leftButtons.buttons)
    /\ pressed # m_leftButtons.buttons[i].pressed
    /\ Deliver(window, settings, m_internalSettings,
               [m_leftButtons EXCEPT !.buttons[i].pressed = pressed],
               m_rightButtons, Unanimated, FALSE, FALSE, FALSE, 0)

\* ---- DecorationButton::checkedChanged of button i of the left group: no slot
CheckedChanged(i, checked) ==
    /\ i \in 1..Len(m_leftButtons.buttons)
    /\ checked # m_leftButtons.buttons[i].checked
    /\ Deliver(window, settings, m_internalSettings,
               [m_leftButtons EXCEPT !.buttons[i].checked = checked],
               m_rightButtons, Unanimated, FALSE, FALSE, FALSE, 0)

\* ---- the handlers of the turn have returned to the event loop
ReturnToEventLoop ==
    /\ eventLoop.inTurn
    /\ eventLoop' = [eventLoop EXCEPT !.inTurn = FALSE]
    /\ UNCHANGED <<window, settings, m_internalSettings, borders, resizeOnlyBorders,
                   titleBar, m_titleRect, iconLoader, m_titleBarPath, m_windowPath, m_opacity,
                   m_animation, m_leftButtons, m_rightButtons, hist>>

\* ---- a zero timer queued by updateButtonsGeometryDelayed (line 459) fires
\* when the event loop is idle: Decoration::updateButtonsGeometry
SingleShotTimeout ==
    /\ ~eventLoop.inTurn
    /\ eventLoop.pending > 0
    /\ m_leftButtons' = layoutLeft(m_leftButtons, window, settings, borders)
    /\ m_rightButtons' = layoutRight(m_rightButtons, window, settings, borders)
    /\ eventLoop' = [eventLoop EXCEPT !.pending = @ - 1]
    /\ hist' = [hist EXCEPT !.op = "singleShotTimeout", !.arg = FALSE, !.streak = 0,
                            !.layout = TRUE, !.inFlight = FALSE]
    /\ UNCHANGED <<window, settings, m_internalSettings, borders, resizeOnlyBorders,
                   titleBar, m_titleRect, iconLoader, m_titleBarPath, m_windowPath, m_opacity,
                   m_animation>>

\* ---- the animation timer fires when the event loop is idle: dt of time has
\* passed for the running animations of the decoration and of its buttons
tickButton(btn, dt) ==
    LET a == advance(Animated(btn.m_animation, btn.m_opacity), dt)
    IN  [btn EXCEPT !.m_animation = a.anim, !.m_opacity = a.opacity]

tickGroup(g, dt) == [g EXCEPT !.buttons = [i \in 1..Len(g.buttons) |-> tickButton(g.buttons[i], dt)]]

running(g) == \E i \in 1..Len(g.buttons) : g.buttons[i].m_animation.state = "Running"

AnimationTimeout(dt) ==
    /\ ~eventLoop.inTurn
    /\ m_animation.state = "Running" \/ running(m_leftButtons) \/ running(m_rightButtons)
    /\ m_opacity' = advance(Unanimated, dt).opacity
    /\ m_animation' = advance(Unanimated, dt).anim
    /\ m_leftButtons' = tickGroup(m_leftButtons, dt)
    /\ m_rightButtons' = tickGroup(m_rightButtons, dt)
    /\ hist' = [hist EXCEPT !.op = "animationTimeout", !.arg = FALSE, !.streak = 0,
                            !.layout = FALSE, !.inFlight = FALSE]
    /\ UNCHANGED <<window, settings, m_internalSettings, borders, resizeOnlyBorders,
                   titleBar, m_titleRect, iconLoader, m_titleBarPath, m_windowPath, eventLoop>>

\* ========================================================== specifications
Widths == {Px(40 + 10 * i) : i \in 1..MaxWidth}

NormalWindow ==
    [active |-> TRUE, maximizedHorizontally |-> FALSE, maximizedVertically |-> FALSE,
     shaded |-> FALSE, adjacentScreenEdges |-> {}, width |-> Px(50), height |-> Px(30),
     captionWidth |-> Px(20), scale2 |-> 2, bound |-> TRUE]

HostSettings ==
    [alphaChannelSupported |-> TRUE, smallSpacing |-> 2, largeSpacing |-> 8, gridUnit |-> 8,
     fontHeight |-> 17, borderSize |-> "Normal", buttonsLeft |-> <<>>, buttonsRight |-> <<>>]

ThemeConfig ==
    [animationsEnabled |-> TRUE, animationsDuration |-> 4, cornerRadius |-> 4,
     borderSize |-> "Tiny", maskBorderSize |-> FALSE, buttonSize |-> "Default",
     titleAlignment |-> "AlignCenterFullWidth", hideTitleBar |-> FALSE,
     outlineCloseButton |-> FALSE, drawTitleBarSeparator |-> FALSE]

\* ---- the outline paths under window-state changes, each change followed by
\* a call of calculateWindowAndTitleBarShapes
InitShapes ==
    \E scale2 \in {2, 3} :
        InitFrom([NormalWindow EXCEPT !.scale2 = scale2], HostSettings, ThemeConfig)

ShapesCalculated == hist.sync # "dirty"

NextShapes ==
    \/ \E e \in SUBSET {"Left", "Top", "Right"} : ShapesCalculated /\ AdjacentScreenEdgesChanged(e)
    \/ \E m \in BOOLEAN : ShapesCalculated /\ MaximizedChanged(m, m)
    \/ \E b \in BOOLEAN : ShapesCalculated /\ ShadedChanged(b)
    \/ \E w \in Widths : ShapesCalculated /\ WidthChanged(w)
    \/ \E b \in BOOLEAN : ShapesCalculated /\ AlphaChannelSupportedChanged(b)
    \/ \E w \in BOOLEAN : CalculateWindowAndTitleBarShapes(w)

SpecShapes == InitShapes /\ [][NextShapes]_vars

\* ---- the geometry recomputation repeated, between changes of the window,
\* of the display scale (no slot is connected to it) and of the theme
ScaleChanged(scale2) ==
    /\ scale2 # window.scale2
    /\ Deliver([window EXCEPT !.scale2 = scale2], settings, m_internalSettings,
               m_leftButtons, m_rightButtons, Unanimated, FALSE, FALSE, FALSE, 0)

InitRecompute == InitFrom(NormalWindow, HostSettings, ThemeConfig)

NextRecompute ==
    \/ \E scale2 \in {2, 3} : ScaleChanged(scale2)
    \/ \E m \in BOOLEAN : MaximizedChanged(m, m)
    \/ \E b \in BOOLEAN : ShadedChanged(b)
    \/ \E w \in BOOLEAN : GeometryRecomputation(w)
    \/ ReturnToEventLoop
    \/ SingleShotTimeout

SpecRecompute == InitRecompute /\ [][NextRecompute]_vars

\* ---- DecoratedWindow::captionChanged (line 233): update(titleBar())
CaptionChanged(captionWidth) ==
    /\ captionWidth # window.captionWidth
    /\ Deliver([window EXCEPT !.captionWidth = captionWidth], settings, m_internalSettings,
               m_leftButtons, m_rightButtons, Unanimated, FALSE, FALSE, FALSE, 0)

\* ---- Decoration::paint and paintTitleBar (lines 539-565): the caption is
\* drawn with the pen fontColor() in the rect and alignment of captionRect()
Paint ==
    /\ ~hideTitleBar(m_internalSettings)
    /\ hist' = [hist EXCEPT
                   !.op = "paint", !.arg = FALSE, !.streak = 0, !.layout = FALSE,
                   !.inFlight = FALSE,
                   !.out = [NothingPainted EXCEPT
                               !.caption = captionRect(window, settings, m_internalSettings,
                                                       borders, m_leftButtons, m_rightButtons),
                               !.pen = fontColor(window)]]
    /\ UNCHANGED <<window, settings, m_internalSettings, borders, resizeOnlyBorders,
                   titleBar, m_titleRect, iconLoader, m_titleBarPath, m_windowPath, m_opacity,
                   m_animation, m_leftButtons, m_rightButtons, eventLoop>>

\* ---- the caption placement for captions, widths and button lists
CaptionWidths == {Px(2 * i) : i \in 0..MaxCaption} \cup {Px(46 + 2 * i) : i \in 0..MaxCaption}

InitCaption ==
    \E scale2 \in {2, 3}, left \in {<<>>, <<"Menu">>}, right \in {<<>>, <<"Close">>},
       alignment \in TitleAlignments :
        InitFrom([NormalWindow EXCEPT !.scale2 = scale2],
                 [HostSettings EXCEPT !.buttonsLeft = left, !.buttonsRight = right],
                 [ThemeConfig EXCEPT !.titleAlignment = alignment])

NextCaption ==
    \/ \E cw \in CaptionWidths : CaptionChanged(cw)
    \/ \E w \in Widths : WidthChanged(w)
    \/ Paint

SpecCaption == InitCaption /\ [][NextCaption]_vars

\* ---- the cross-fades of the title bar and of a button under activation,
\* hover, reconfiguration and the passing of time
Durations == {0, MaxDuration}

Budget == [NoHistory EXCEPT !.budget = MaxSignals]

HostMayDeliver == hist.budget > 0

InitAnim ==
    \E enabled \in BOOLEAN, duration \in Durations :
        InitWith(NormalWindow, [HostSettings EXCEPT !.buttonsLeft = <<"Close">>],
                 [ThemeConfig EXCEPT !.animationsEnabled = enabled,
                                     !.animationsDuration = duration],
                 Budget)

NextAnim ==
    \/ \E active \in BOOLEAN : HostMayDeliver /\ ActiveChanged(active)
    \/ \E hovered \in BOOLEAN : HostMayDeliver /\ HoveredChanged(1, hovered)
    \/ \E enabled \in BOOLEAN, duration \in Durations :
           /\ HostMayDeliver
           /\ Reconfigured([m_internalSettings EXCEPT !.animationsEnabled = enabled,
                                                      !.animationsDuration = duration])
    \/ \E dt \in 1..2 : AnimationTimeout(dt)
    \/ ReturnToEventLoop
    \/ SingleShotTimeout

SpecAnim == InitAnim /\ [][NextAnim]_vars

\* ---- the triggers of the button re-layout and the event loop's turns
InitLoop ==
    InitWith(NormalWindow,
             [HostSettings EXCEPT !.buttonsLeft = <<"Menu">>, !.buttonsRight = <<"Close">>],
             ThemeConfig, Budget)

NextLoop ==
    \/ \E smallSpacing \in {2, 3} : HostMayDeliver /\ SpacingChanged(smallSpacing)
    \/ \E types \in {<<"Menu">>, <<"Menu", "Spacer">>} :
           HostMayDeliver /\ DecorationButtonsLeftChanged(types)
    \/ \E types \in {<<"Close">>, <<>>} : HostMayDeliver /\ DecorationButtonsRightChanged(types)
    \/ \E cat \in {"Normal", "Large"} : HostMayDeliver /\ BorderSizeChanged(cat)
    \/ HostMayDeliver /\ Reconfigured(m_internalSettings)
    \/ \E w \in Widths : HostMayDeliver /\ WidthChanged(w)
    \/ \E m \in BOOLEAN : HostMayDeliver /\ MaximizedChanged(m, m)
    \/ \E e \in {{}, {"Left", "Top"}} : HostMayDeliver /\ AdjacentScreenEdgesChanged(e)
    \/ \E b \in BOOLEAN : HostMayDeliver /\ ShadedChanged(b)
    \/ ReturnToEventLoop
    \/ SingleShotTimeout

SpecLoop == InitLoop /\ [][NextLoop]_vars

\* ---- Button::backgroundColor() of button i of the left group is called
BackgroundColor(i) ==
    /\ i \in 1..Len(m_leftButtons.buttons)
    /\ hist' = [hist EXCEPT
                   !.op = "backgroundColor", !.arg = FALSE, !.streak = 0, !.layout = FALSE,
                   !.inFlight = FALSE,
                   !.out = [NothingPainted EXCEPT
                               !.button = i,
                               !.color = backgroundColor(m_leftButtons.buttons[i],
                                                         m_leftButtons.buttons[i].decoration, window,
                                                         m_internalSettings, Unanimated)]]
    /\ UNCHANGED <<window, settings, m_internalSettings, borders, resizeOnlyBorders,
                   titleBar, m_titleRect, iconLoader, m_titleBarPath, m_windowPath, m_opacity,
                   m_animation, m_leftButtons, m_rightButtons, eventLoop>>

\* ---- the background of a button of every type, the window and the button
\* changing their states
InitColors ==
    \E type \in ButtonTypes :
        InitWith(NormalWindow, [HostSettings EXCEPT !.buttonsLeft = <<type>>],
                 [ThemeConfig EXCEPT !.animationsDuration = 2], Budget)

NextColors ==
    \/ \E active \in BOOLEAN : HostMayDeliver /\ ActiveChanged(active)
    \/ \E hovered \in BOOLEAN : HostMayDeliver /\ HoveredChanged(1, hovered)
    \/ \E pressed \in BOOLEAN : HostMayDeliver /\ PressedChanged(1, pressed)
    \/ BackgroundColor(1)
    \/ AnimationTimeout(1)
    \/ ReturnToEventLoop

SpecColors == InitColors /\ [][NextColors]_vars

\* ---- Decoration::borderSize(bottom, scale) is called, the scale being the
\* window's
BorderSize(bottom) ==
    /\ hist' = [hist EXCEPT
                   !.op = "borderSize", !.arg = bottom, !.streak = 0, !.layout = FALSE,
                   !.inFlight = FALSE,
                   !.out = [NothingPainted EXCEPT
                               !.length = borderSize(bottom, window.scale2, settings,
                                                     m_internalSettings)]]
    /\ UNCHANGED <<window, settings, m_internalSettings, borders, resizeOnlyBorders,
                   titleBar, m_titleRect, iconLoader, m_titleBarPath, m_windowPath, m_opacity,
                   m_animation, m_leftButtons, m_rightButtons, eventLoop>>

\* ---- the border widths for every category of either source, spacings
\* below and above 4 and both scales
SmallSpacings == {0, 2, 5}

InitBorder ==
    \E cat \in BorderCategories, mask \in BOOLEAN, scale2 \in {2, 3} :
        InitWith([NormalWindow EXCEPT !.scale2 = scale2],
                 [HostSettings EXCEPT !.borderSize = IF mask THEN "Normal" ELSE cat],
                 [ThemeConfig EXCEPT !.borderSize = IF mask THEN cat ELSE "Tiny",
                                     !.maskBorderSize = mask],
                 Budget)

NextBorder ==
    \/ \E smallSpacing \in SmallSpacings : HostMayDeliver /\ SpacingChanged(smallSpacing)
    \/ \E scale2 \in {2, 3} : HostMayDeliver /\ ScaleChanged(scale2)
    \/ \E bottom \in BOOLEAN : BorderSize(bottom)
    \/ ReturnToEventLoop
    \/ SingleShotTimeout

SpecBorder == InitBorder /\ [][NextBorder]_vars

\* ---- lookupShadowParams(size) is called
LookupShadowParams(size) ==
    /\ hist' = [hist EXCEPT
                   !.op = "lookupShadowParams", !.arg = FALSE, !.streak = 0, !.layout = FALSE,
                   !.inFlight = FALSE,
                   !.out = [NothingPainted EXCEPT !.size = size,
                                                  !.shadow = lookupShadowParams(size)]]
    /\ UNCHANGED <<window, settings, m_internalSettings, borders, resizeOnlyBorders,
                   titleBar, m_titleRect, iconLoader, m_titleBarPath, m_windowPath, m_opacity,
                   m_animation, m_leftButtons, m_rightButtons, eventLoop>>

\* ---- the shadow parameters for sizes inside and outside the enum, the
\* window changing its activation and its scale
ShadowSizes == (0 - 2)..MaxShadowSize

InitShadow == InitWith(NormalWindow, HostSettings, ThemeConfig, Budget)

NextShadow ==
    \/ \E size \in ShadowSizes : LookupShadowParams(size)
    \/ \E active \in BOOLEAN : HostMayDeliver /\ ActiveChanged(active)
    \/ \E scale2 \in {2, 3} : HostMayDeliver /\ ScaleChanged(scale2)
    \/ ReturnToEventLoop

SpecShadow == InitShadow /\ [][NextShadow]_vars

\* ---- the borders under every event that recalculates them
InitFrame == InitWith(NormalWindow, HostSettings, ThemeConfig, Budget)

NextFrame ==
    \/ \E cat \in {"None", "NoSides", "Normal", "Oversized"} :
           HostMayDeliver /\ BorderSizeChanged(cat)
    \/ \E fontHeight \in {17, 40} : HostMayDeliver /\ FontChanged(fontHeight)
    \/ \E smallSpacing \in {0, 2} : HostMayDeliver /\ SpacingChanged(smallSpacing)
    \/ \E e \in {{}, {"Left", "Top"}} : HostMayDeliver /\ AdjacentScreenEdgesChanged(e)
    \/ \E m \in BOOLEAN : HostMayDeliver /\ MaximizedChanged(m, m)
    \/ \E b \in BOOLEAN : HostMayDeliver /\ ShadedChanged(b)
    \/ \E hide \in BOOLEAN, mask \in BOOLEAN :
           /\ HostMayDeliver
           /\ Reconfigured([m_internalSettings EXCEPT !.hideTitleBar = hide,
                                                      !.maskBorderSize = mask])
    \/ ReturnToEventLoop
    \/ SingleShotTimeout

SpecFrame == InitFrame /\ [][NextFrame]_vars

\* ---- Button::foregroundColor() of button i of the left group is called
ForegroundColor(i) ==
    /\ i \in 1..Len(m_leftButtons.buttons)
    /\ hist' = [hist EXCEPT
                   !.op = "foregroundColor", !.arg = FALSE, !.streak = 0, !.layout = FALSE,
                   !.inFlight = FALSE,
                   !.out = [NothingPainted EXCEPT
                               !.button = i,
                               !.color = foregroundColor(m_leftButtons.buttons[i],
                                                         m_leftButtons.buttons[i].decoration, window,
                                                         m_internalSettings, Unanimated)]]
    /\ UNCHANGED <<window, settings, m_internalSettings, borders, resizeOnlyBorders,
                   titleBar, m_titleRect, iconLoader, m_titleBarPath, m_windowPath, m_opacity,
                   m_animation, m_leftButtons, m_rightButtons, eventLoop>>

\* ---- the host takes the window away: Decoration::window() is null from now on
WindowReleased ==
    /\ window.bound
    /\ window' = [window EXCEPT !.bound = FALSE]
    /\ hist' = [hist EXCEPT !.op = "windowReleased", !.arg = FALSE, !.streak = 0,
                            !.layout = FALSE, !.inFlight = FALSE]
    /\ UNCHANGED <<settings, m_internalSettings, borders, resizeOnlyBorders,
                   titleBar, m_titleRect, iconLoader, m_titleBarPath, m_windowPath, m_opacity,
                   m_animation, m_leftButtons, m_rightButtons, eventLoop>>

\* ---- button i of the left group loses its decoration: decoration() is
\* null from now on
DecorationReleased(i) ==
    /\ i \in 1..Len(m_leftButtons.buttons)
    /\ m_leftButtons.buttons[i].decoration
    /\ m_leftButtons' = [m_leftButtons EXCEPT !.buttons[i].decoration = FALSE]
    /\ hist' = [hist EXCEPT !.op = "decorationReleased", !.arg = FALSE, !.streak = 0,
                            !.layout = FALSE, !.inFlight = FALSE]
    /\ UNCHANGED <<window, settings, m_internalSettings, borders, resizeOnlyBorders,
                   titleBar, m_titleRect, iconLoader, m_titleBarPath, m_windowPath, m_opacity,
                   m_animation, m_rightButtons, eventLoop>>

\* what a read through the null window() may give
Garbage == {0, Px(7)}

\* ---- a slot of the decoration that reads window() runs while window() is
\* null: recalculateBorders (line 410), updateTitleBar (line 316),
\* calculateWindowAndTitleBarShapes (line 271) and the colour accessors (lines
\* 165, 192) dereference it unchecked, which is undefined: the process faults,
\* or goes on with what it read
DereferencesNullWindow ==
    /\ ~window.bound
    /\ hist.op # "fault"
    /\ \/ /\ hist' = [hist EXCEPT !.op = "fault", !.arg = FALSE, !.streak = 0,
                                   !.layout = FALSE, !.inFlight = FALSE,
                                   !.budget = Max(@ - 1, 0)]
          /\ UNCHANGED <<borders, titleBar>>
       \/ /\ hist' = [hist EXCEPT !.op = "signal", !.arg = FALSE, !.streak = 0,
                                   !.layout = FALSE, !.inFlight = FALSE,
                                   !.budget = Max(@ - 1, 0)]
          /\ \E g \in Garbage :
                /\ borders' = Margins(g, g, g, g)
                /\ titleBar' = Rect(g, g, g, g)
    /\ UNCHANGED <<window, settings, m_internalSettings, resizeOnlyBorders,
                   m_titleRect, iconLoader, m_titleBarPath, m_windowPath, m_opacity,
                   m_animation, m_leftButtons, m_rightButtons, eventLoop>>

\* ---- the operations of a decoration and of its button while the window or
\* the decoration goes away; a faulted process does nothing more
Alive == hist.op # "fault"

InitTeardown ==
    InitWith(NormalWindow, [HostSettings EXCEPT !.buttonsLeft = <<"Close">>],
             [ThemeConfig EXCEPT !.animationsDuration = 1], Budget)

NextTeardown ==
    \/ Alive /\ WindowReleased
    \/ Alive /\ DecorationReleased(1)
    \/ Alive /\ HostMayDeliver /\ DereferencesNullWindow
    \/ \E hovered \in BOOLEAN : Alive /\ HostMayDeliver /\ HoveredChanged(1, hovered)
    \/ \E size \in {"Default", "Large"} :
           /\ Alive /\ HostMayDeliver /\ window.bound
           /\ Reconfigured([m_internalSettings EXCEPT !.buttonSize = size])
    \/ Alive /\ BackgroundColor(1)
    \/ Alive /\ ForegroundColor(1)
    \/ Alive /\ AnimationTimeout(1)
    \/ Alive /\ ReturnToEventLoop
    \/ Alive /\ SingleShotTimeout

SpecTeardown == InitTeardown /\ [][NextTeardown]_vars

\* ---- the button layout under changes of the screen edges, of the button
\* lists and of the theme's button size; with a grid unit of 10 the Small
\* button is 15 wide and its spacer 7.5
LeftLists == {<<"Menu">>, <<"Spacer", "Menu">>}
RightLists == {<<"Close">>, <<"Maximize", "Spacer">>}

InitLayout ==
    \E left \in LeftLists, right \in RightLists :
        InitWith(NormalWindow,
                 [HostSettings EXCEPT !.gridUnit = 10, !.buttonsLeft = left, !.buttonsRight = right],
                 ThemeConfig, Budget)

NextLayout ==
    \/ \E e \in {{}, {"Top"}, {"Left", "Right"}, {"Left", "Top", "Right"}} :
           HostMayDeliver /\ AdjacentScreenEdgesChanged(e)
    \/ \E types \in LeftLists : HostMayDeliver /\ DecorationButtonsLeftChanged(types)
    \/ \E types \in RightLists : HostMayDeliver /\ DecorationButtonsRightChanged(types)
    \/ \E size \in {"Default", "Small"} :
           HostMayDeliver /\ Reconfigured([m_internalSettings EXCEPT !.buttonSize = size])
    \/ ReturnToEventLoop
    \/ SingleShotTimeout

SpecLayout == InitLayout /\ [][NextLayout]_vars

\* ---- the caption's pen while the window is activated, deactivated and
\* painted and its cross-fade runs
InitPen ==
    \E active \in BOOLEAN :
        InitWith([NormalWindow EXCEPT !.active = active], HostSettings,
                 [ThemeConfig EXCEPT !.animationsDuration = MaxDuration], Budget)

NextPen ==
    \/ \E active \in BOOLEAN : HostMayDeliver /\ ActiveChanged(active)
    \/ \E cw \in CaptionWidths : HostMayDeliver /\ CaptionChanged(cw)
    \/ \E dt \in 1..2 : AnimationTimeout(dt)
    \/ Paint
    \/ ReturnToEventLoop

SpecPen == InitPen /\ [][NextPen]_vars

\* ---- the foreground of a button of every type, with and without the
\* outlined close button, the button being hovered, pressed and checked
InitForeground ==
    \E type \in ButtonTypes, outline \in BOOLEAN :
        InitWith(NormalWindow, [HostSettings EXCEPT !.buttonsLeft = <<type>>],
                 [ThemeConfig EXCEPT !.animationsDuration = 2, !.outlineCloseButton = outline],
                 Budget)

NextForeground ==
    \/ \E hovered \in BOOLEAN : HostMayDeliver /\ HoveredChanged(1, hovered)
    \/ \E pressed \in BOOLEAN : HostMayDeliver /\ PressedChanged(1, pressed)
    \/ \E checked \in BOOLEAN : HostMayDeliver /\ CheckedChanged(1, checked)
    \/ ForegroundColor(1)
    \/ AnimationTimeout(1)
    \/ ReturnToEventLoop

SpecForeground == InitForeground /\ [][NextForeground]_vars

\* ---- Button::paint of button i of the left group is called; the Menu
\* button reads the palette of window()
ButtonPaint(i) ==
    /\ i \in 1..Len(m_leftButtons.buttons)
    /\ window.bound
    /\ iconLoader' = buttonPaint(m_leftButtons.buttons[i], iconLoader, window)
    /\ hist' = [hist EXCEPT
                   !.op = "buttonPaint", !.arg = FALSE, !.streak = 0, !.layout = FALSE,
                   !.inFlight = FALSE,
                   !.out = [NothingPainted EXCEPT
                               !.button = i,
                               !.pen = IF m_leftButtons.buttons[i].type = "Menu"
                                       THEN fontColor(window) ELSE InvalidColor]]
    /\ UNCHANGED <<window, settings, m_internalSettings, borders, resizeOnlyBorders,
                   titleBar, m_titleRect, m_titleBarPath, m_windowPath, m_opacity,
                   m_animation, m_leftButtons, m_rightButtons, eventLoop>>

\* ---- another user of KIconLoader::global() in the process sets its custom
\* palette, or resets it
IconLoaderPaletteChanged(custom) ==
    /\ iconLoader' = IF custom THEN setCustomPalette(iconLoader, HostPalette)
                     ELSE resetPalette(iconLoader)
    /\ iconLoader' # iconLoader
    /\ hist' = [hist EXCEPT !.op = "iconLoader", !.arg = custom, !.streak = 0,
                            !.layout = FALSE, !.inFlight = FALSE,
                            !.budget = Max(@ - 1, 0)]
    /\ UNCHANGED <<window, settings, m_internalSettings, borders, resizeOnlyBorders,
                   titleBar, m_titleRect, m_titleBarPath, m_windowPath, m_opacity,
                   m_animation, m_leftButtons, m_rightButtons, eventLoop>>

\* ---- the icon loader's palette while buttons are painted, the window is
\* activated and deactivated and the process changes the palette
InitIcon ==
    \E type \in {"Menu", "Close"}, active \in BOOLEAN :
        InitWith([NormalWindow EXCEPT !.active = active],
                 [HostSettings EXCEPT !.buttonsLeft = <<type>>],
                 [ThemeConfig EXCEPT !.animationsDuration = 1], Budget)

NextIcon ==
    \/ \E active \in BOOLEAN : HostMayDeliver /\ ActiveChanged(active)
    \/ \E custom \in BOOLEAN : HostMayDeliver /\ IconLoaderPaletteChanged(custom)
    \/ \E hovered \in BOOLEAN : HostMayDeliver /\ HoveredChanged(1, hovered)
    \/ ButtonPaint(1)
    \/ AnimationTimeout(1)
    \/ ReturnToEventLoop

SpecIcon == InitIcon /\ [][NextIcon]_vars

\* ================================================================== claims
IsPlainRect(p) == ~p.empty /\ p.corners = {} /\ p.subpaths = 1

Calculated == hist.op = "calculateWindowAndTitleBarShapes"

\* C1: after calculateWindowAndTitleBarShapes has run, with either value of
\* windowShapeOnly, a shaded window's outline path equals the title-bar
\* outline path, whatever maximized and alpha-channel support are.
C1_ShadedWindowPathIsTitleBarPath ==
    (Calculated /\ window.shaded) => m_windowPath = m_titleBarPath

C1_Witness ==
    /\ Calculated /\ hist.arg /\ window.shaded
    /\ isMaximized(window) /\ ~settings.alphaChannelSupported
    /\ ~m_windowPath.empty

\* C2 as stated: after window-state changes each followed by a call of
\* calculateWindowAndTitleBarShapes with either value of windowShapeOnly, a
\* maximized window or one without alpha compositing has plain rectangles for
\* both paths and the title-bar path is the rectangle (0,0) of size
\* windowWidth x borderTop.
C2_PlainRectanglesForEitherArgument ==
    (hist.sync = "ok" /\ (isMaximized(window) \/ ~settings.alphaChannelSupported)) =>
        /\ IsPlainRect(m_windowPath)
        /\ IsPlainRect(m_titleBarPath)
        /\ m_titleBarPath.rect = Rect(0, 0, sizeOf(window, borders).w, borders.top)

\* C2 amended: under the same changes and calls, a maximized window or one
\* without alpha compositing has a plain rectangle as window path, and, when
\* the last call had windowShapeOnly = false or the window is shaded, its
\* title-bar path is the plain rectangle at (0,0) whose width and height are
\* the decoration's width and top border truncated to whole pixels.
C2_PlainRectanglesWhenTitleRecomputed ==
    (hist.sync = "ok" /\ (isMaximized(window) \/ ~settings.alphaChannelSupported)) =>
        /\ IsPlainRect(m_windowPath)
        /\ (~hist.arg \/ window.shaded) =>
              /\ IsPlainRect(m_titleBarPath)
              /\ m_titleBarPath.rect =
                    Rect(0, 0,
                         ((window.width + borders.left + borders.right) \div PxUnit) * PxUnit,
                         (borders.top \div PxUnit) * PxUnit)

C2_Witness ==
    /\ hist.sync = "ok" /\ ~hist.arg
    /\ isMaximized(window) /\ settings.alphaChannelSupported /\ ~window.shaded
    /\ window.scale2 = 3 /\ borders.top % PxUnit # 0

\* C9: with the theme and the window state held fixed, a second run of the
\* geometry recomputation (recalculateBorders, then
\* calculateWindowAndTitleBarShapes with the same argument) right after a
\* first one leaves borders, resize-only borders and both paths as the first
\* run left them.
C9_RecomputationIdempotent ==
    [][hist'.streak = 2 =>
          UNCHANGED <<borders, resizeOnlyBorders, m_titleBarPath, m_windowPath>>]_vars

C9_Witness ==
    /\ hist.streak = 2 /\ hist.op = "geometryRecomputation"
    /\ window.scale2 = 3 /\ ~window.shaded /\ ~m_windowPath.empty /\ ~m_titleBarPath.empty

\* the quantities C3 is stated in: the decoration's width, the centred text
\* box [L, R] and the edges of the space the buttons leave
C3_Width == window.width + borders.left + borders.right
C3_L == (C3_Width - window.captionWidth) \div 2
C3_R == C3_L + window.captionWidth
C3_LeftOffset == leftOffsetOf(window, settings, m_leftButtons)
C3_RightEdge == C3_Width - rightOffsetOf(window, settings, borders, m_rightButtons)
C3_MaxRect ==
    Rect(C3_LeftOffset, yOffsetOf(window, settings), C3_RightEdge - C3_LeftOffset,
         buttonSize(settings, m_internalSettings))
C3_FullRect ==
    Rect(0, (yOffsetOf(window, settings) \div PxUnit) * PxUnit,
         (C3_Width \div PxUnit) * PxUnit, buttonSize(settings, m_internalSettings))
C3_Case ==
    /\ hist.op = "paint"
    /\ m_internalSettings.titleAlignment = "AlignCenterFullWidth"

\* C3 as stated: under the full-width-centered policy the caption is centred
\* over the full width only if the centred text box fits strictly,
\* leftOffset < L and R < width - rightOffset; otherwise, the boundary cases
\* L = leftOffset and R = width - rightOffset included, it is placed in the
\* constrained rect, left-aligned if the left edge is violated and
\* right-aligned if the right edge is.
C3_StrictFit ==
    C3_Case =>
        IF C3_LeftOffset < C3_L /\ C3_R < C3_RightEdge
        THEN hist.out.caption = Placed(C3_FullRect, "AlignCenter")
        ELSE /\ hist.out.caption.rect = C3_MaxRect
             /\ hist.out.caption.alignment =
                   IF C3_L <= C3_LeftOffset THEN "AlignVCenter|AlignLeft"
                   ELSE "AlignVCenter|AlignRight"

\* C3 amended: the caption is centred over the full width if the centred text
\* box fits, touching allowed: leftOffset <= L and R <= width - rightOffset
\* (so in the boundary cases L = leftOffset and R = width - rightOffset);
\* otherwise it is placed in the constrained rect maxRect, left-aligned when
\* L < leftOffset (also when both edges are violated) and right-aligned when
\* only R > width - rightOffset.
C3_FitOrFallBack ==
    C3_Case =>
        hist.out.caption =
            IF C3_L < C3_LeftOffset THEN Placed(C3_MaxRect, "AlignVCenter|AlignLeft")
            ELSE IF C3_R > C3_RightEdge THEN Placed(C3_MaxRect, "AlignVCenter|AlignRight")
            ELSE Placed(C3_FullRect, "AlignCenter")

C3_Witness ==
    /\ C3_Case
    /\ C3_L = C3_LeftOffset
    /\ C3_R = C3_RightEdge
    /\ hist.out.caption.alignment = "AlignCenter"

\* the cross-fade of the first button of the left group
C4_Button == m_leftButtons.buttons[1]

C4_Reversed(anim, forward) ==
    [anim EXCEPT !.direction = IF forward THEN "Forward" ELSE "Backward"]

\* C4: with animations enabled and a duration above 0, a flip of the window's
\* active state or of a button's hovered state that arrives while the
\* entity's animation is Running leaves the animation Running at the same
\* current time and the progress at the same value: only the direction is
\* set, to forward for active/hovered and to backward otherwise.
C4_ReversalKeepsProgress ==
    [][/\ (/\ m_internalSettings.animationsEnabled
           /\ m_animation.duration > 0
           /\ m_animation.state = "Running"
           /\ window'.active # window.active)
          => /\ m_animation' = C4_Reversed(m_animation, window'.active)
             /\ m_animation'.state = "Running"
             /\ m_opacity' = m_opacity
       /\ (/\ m_internalSettings.animationsEnabled
           /\ C4_Button.m_animation.duration > 0
           /\ C4_Button.m_animation.state = "Running"
           /\ C4_Button'.hovered # C4_Button.hovered)
          => /\ C4_Button'.m_animation = C4_Reversed(C4_Button.m_animation, C4_Button'.hovered)
             /\ C4_Button'.m_animation.state = "Running"
             /\ C4_Button'.m_opacity = C4_Button.m_opacity]_vars

C4_Witness ==
    /\ hist.op = "signal" /\ hist.inFlight
    /\ m_internalSettings.animationsEnabled
    /\ window.active
    /\ m_animation.state = "Running" /\ m_animation.direction = "Forward"
    /\ 0 < m_animation.currentTime /\ m_animation.currentTime < m_animation.duration
    /\ 0 < m_opacity /\ m_opacity < OpacityOne
    /\ C4_Button.m_animation.state = "Stopped"

\* C5: when animations are disabled in the theme config or the duration is 0,
\* every flip of the window's active state or of a button's hovered state
\* sets the progress to the target endpoint (1 for active/hovered, 0
\* otherwise), and no animation is Running after any step, the
\* reconfiguration that disables animations while one is in flight included.
C5_DisabledIsInstantaneous ==
    [][(~m_internalSettings'.animationsEnabled \/ m_internalSettings'.animationsDuration = 0)
          => /\ m_animation'.state # "Running"
             /\ C4_Button'.m_animation.state # "Running"
             /\ window'.active # window.active
                    => m_opacity' = IF window'.active THEN OpacityOne ELSE 0
             /\ C4_Button'.hovered # C4_Button.hovered
                    => C4_Button'.m_opacity = IF C4_Button'.hovered THEN OpacityOne ELSE 0]_vars

C7_WindowChanged ==
    \/ window'.width # window.width
    \/ isMaximized(window') # isMaximized(window)
    \/ window'.adjacentScreenEdges # window.adjacentScreenEdges
    \/ window'.shaded # window.shaded

\* the step changes the spacing, a button list or the borders
C7_SettingsChanged ==
    \/ settings'.smallSpacing # settings.smallSpacing
    \/ settings'.buttonsLeft # settings.buttonsLeft
    \/ settings'.buttonsRight # settings.buttonsRight
    \/ borders' # borders

C8_Button == m_leftButtons.buttons[hist.out.button]

\* C8: while the window is inactive, Button::backgroundColor returns light
\* gray with alpha 128 for a Close, Minimize or Maximize button, whatever its
\* hovered state, and an invalid colour for a button of any other type.
C8_InactiveBackground ==
    (hist.op = "backgroundColor" /\ ~window.active) =>
        hist.out.color =
            IF C8_Button.type \in {"Close", "Minimize", "Maximize"}
            THEN [valid |-> TRUE, kind |-> "named", name |-> "LightGray", alpha |-> 128,
                  of |-> <<>>, bias |-> <<0, 1>>]
            ELSE InvalidColor

C8_Witness ==
    /\ hist.op = "backgroundColor" /\ ~window.active
    /\ C8_Button.type = "Close" /\ C8_Button.hovered
    /\ hist.out.color.valid /\ hist.out.color.alpha = 128

\* the quantities C10 is stated in
C10_Base ==
    Max((2 * PxUnit) \div window.scale2, snapToPixelGrid(Px(settings.smallSpacing), window.scale2))

C10_Category ==
    IF m_internalSettings.maskBorderSize THEN m_internalSettings.borderSize
    ELSE settings.borderSize

C10_SnappedMax == snapToPixelGrid(Max(4 * PxUnit, C10_Base), window.scale2)

C10_Factor ==
    [cat \in {"Normal", "Large", "VeryLarge", "Huge", "VeryHuge", "Oversized"} |->
        CASE cat = "Normal" -> 2 [] cat = "Large" -> 3 [] cat = "VeryLarge" -> 4
          [] cat = "Huge" -> 5 [] cat = "VeryHuge" -> 6 [] OTHER -> 10]

\* C10: borderSize(bottom, scale), with base = max(one pixel at the scale,
\* snapped smallSpacing), returns, for the category of the internal settings
\* when their BorderSize mask is set and of the host settings otherwise: 0 for
\* None; 0 for the sides and the snapped max(4, base) for the bottom for
\* NoSides; the unsnapped base for the sides and the snapped max(4, base) for
\* the bottom for Tiny and for any unknown category; base times 2, 3, 4, 5,
\* 6, 10 for Normal, Large, VeryLarge, Huge, VeryHuge, Oversized.
C10_BorderSizeTable ==
    hist.op = "borderSize" =>
        hist.out.length =
            IF C10_Category = "None" THEN 0
            ELSE IF C10_Category = "NoSides" THEN (IF hist.arg THEN C10_SnappedMax ELSE 0)
            ELSE IF C10_Category \in DOMAIN C10_Factor THEN C10_Base * C10_Factor[C10_Category]
            ELSE (IF hist.arg THEN C10_SnappedMax ELSE C10_Base)

C10_Witness ==
    /\ hist.op = "borderSize" /\ hist.arg
    /\ m_internalSettings.maskBorderSize /\ C10_Category = "Unmapped"
    /\ window.scale2 = 3 /\ settings.smallSpacing = 5
    /\ hist.out.length = C10_Base /\ C10_Base > 4 * PxUnit

\* the table C11 is stated in: offset, then offset, radius and opacity (in
\* tenths) of either layer
C11_Entry(oy, r1, o1, oy2, r2, o2) ==
    [offset |-> [x |-> 0, y |-> oy],
     shadow1 |-> [offset |-> [x |-> 0, y |-> 0], radius |-> r1, opacity |-> o1],
     shadow2 |-> [offset |-> [x |-> 0, y |-> oy2], radius |-> r2, opacity |-> o2]]

C11_Table ==
    [size \in 0..4 |->
        CASE size = 0 -> C11_Entry(0, 0, 0, 0, 0, 0)
          [] size = 1 -> C11_Entry(4, 16, 10, 0 - 2, 8, 4)
          [] size = 2 -> C11_Entry(8, 32, 9, 0 - 4, 16, 3)
          [] size = 3 -> C11_Entry(12, 48, 8, 0 - 6, 24, 2)
          [] OTHER -> C11_Entry(16, 64, 7, 0 - 8, 32, 1)]

\* C11: lookupShadowParams returns the table's entry for each of the five
\* sizes None, Small, Medium, Large, VeryLarge (Medium: offset (0,8), layer 1
\* offset (0,0) radius 32 opacity 0.9, layer 2 offset (0,-4) radius 16 opacity
\* 0.3) and the Large entry (offset (0,12), layer 1 radius 48 opacity 0.8,
\* layer 2 offset (0,-6) radius 24 opacity 0.2) for every other integer.
C11_ShadowTable ==
    hist.op = "lookupShadowParams" =>
        hist.out.shadow = IF hist.out.size \in 0..4 THEN C11_Table[hist.out.size]
                          ELSE C11_Table[3]

C11_Witness ==
    /\ hist.op = "lookupShadowParams"
    /\ hist.out.size = MaxShadowSize /\ MaxShadowSize > 4
    /\ hist.out.shadow.shadow1.radius = 48

\* C12: after every recalculateBorders, whatever border-size, font, spacing,
\* edge-adjacency, maximize, shade or reconfigure events led to it, the four
\* borders are non-negative, and when the title bar is hidden the top border
\* equals the bottom border.
C12_BordersNonNegativeAndUniform ==
    /\ borders.left >= 0 /\ borders.top >= 0 /\ borders.right >= 0 /\ borders.bottom >= 0
    /\ m_internalSettings.hideTitleBar => borders.top = borders.bottom

C12_Witness ==
    /\ hist.op = "signal"
    /\ m_internalSettings.hideTitleBar
    /\ settings.borderSize = "Oversized" /\ ~m_internalSettings.maskBorderSize
    /\ borders.top = borders.bottom /\ borders.bottom > 0

\* the button C13 looks at
C13_Button == m_leftButtons.buttons[1]

\* C13: an operation that needs the binding to the decoration or to the
\* window does nothing when the binding is absent: a signal delivered to a
\* button without decoration changes neither its preferred size nor its
\* animation nor its progress, its foreground and background colours are
\* invalid, and with window() absent no operation of the decoration faults or
\* changes the borders, the title-bar rect or the paths.
C13_NoOpWithoutBinding ==
    [][/\ hist'.op # "fault"
       /\ ~window.bound
             => UNCHANGED <<borders, resizeOnlyBorders, titleBar, m_titleRect,
                            m_titleBarPath, m_windowPath>>
       /\ (~C13_Button.decoration /\ hist'.op = "signal")
             => /\ C13_Button'.preferredSize = C13_Button.preferredSize
                /\ C13_Button'.m_animation = C13_Button.m_animation
                /\ C13_Button'.m_opacity = C13_Button.m_opacity
       /\ (~C13_Button'.decoration /\ hist'.op \in {"foregroundColor", "backgroundColor"})
             => ~hist'.out.color.valid]_vars

\* the quantities C14, C15 and C20 are stated in
LaidOut == hist.layout /\ hist.op \in {"signal", "singleShotTimeout"}
C14_TopMargin == settings.smallSpacing * TitleBar_TopMargin * PxUnit
C14_SideMargin == settings.smallSpacing * TitleBar_SideMargin * PxUnit
C14_Whole(u) == (u \div PxUnit) * PxUnit
C14_Top == "Top" \in window.adjacentScreenEdges
C14_Buttons == m_leftButtons.buttons \o m_rightButtons.buttons
C14_Outermost(i) ==
    \/ i = 1 /\ m_leftButtons.buttons # <<>> /\ "Left" \in window.adjacentScreenEdges
    \/ i = Len(C14_Buttons) /\ m_rightButtons.buttons # <<>>
          /\ "Right" \in window.adjacentScreenEdges

\* C14 as stated: after updateButtonsGeometry every button is as wide as its
\* preferred width, as high as its preferred height plus 0 when the top edge
\* is screen-adjacent and plus smallSpacing x TitleBar_TopMargin when it is
\* not, and its vertical offset is 0 when top-edge-adjacent and that margin
\* otherwise.
C14_OffsetAwayFromTopEdge ==
    LaidOut =>
        \A i \in 1..Len(C14_Buttons) :
            /\ C14_Buttons[i].geometry.w = C14_Buttons[i].preferredSize.w
            /\ C14_Buttons[i].geometry.h =
                   C14_Buttons[i].preferredSize.h + (IF C14_Top THEN 0 ELSE C14_TopMargin)
            /\ C14_Buttons[i].offset.y = (IF C14_Top THEN 0 ELSE C14_TopMargin)

\* C14 amended: after updateButtonsGeometry every button's height is its
\* preferred height plus smallSpacing x TitleBar_TopMargin when the top edge
\* IS screen-adjacent and plus 0 when it is not, its vertical offset is that
\* margin when top-edge-adjacent and 0 otherwise, and its width is its
\* preferred width truncated to whole pixels, plus the side margin for the
\* outermost button of a group whose window edge is screen-adjacent.
C14_OffsetAtTopEdge ==
    LaidOut =>
        \A i \in 1..Len(C14_Buttons) :
            /\ C14_Buttons[i].geometry.w =
                   C14_Whole(C14_Buttons[i].preferredSize.w)
                   + (IF C14_Outermost(i) THEN C14_SideMargin ELSE 0)
            /\ C14_Buttons[i].geometry.h =
                   C14_Buttons[i].preferredSize.h + (IF C14_Top THEN C14_TopMargin ELSE 0)
            /\ C14_Buttons[i].offset.y = (IF C14_Top THEN C14_TopMargin ELSE 0)

C14_Witness ==
    /\ LaidOut /\ C14_Top
    /\ m_leftButtons.buttons # <<>>
    /\ m_leftButtons.buttons[1].type = "Spacer"
    /\ m_leftButtons.buttons[1].preferredSize.w % PxUnit # 0
    /\ m_leftButtons.buttons[1].offset.y = C14_TopMargin /\ C14_TopMargin > 0

\* the quantities C15 is stated in
C15_Width == window.width + borders.left + borders.right
C15_First == m_leftButtons.buttons[1]
C15_Last == m_rightButtons.buttons[Len(m_rightButtons.buttons)]
C15_RightEnd == m_rightButtons.geometry.x + m_rightButtons.geometry.w
C15_Unwidened(g) ==
    \A i \in 1..Len(g.buttons) : g.buttons[i].geometry.w <= g.buttons[i].preferredSize.w

C15_Placed(widthOf(_)) ==
    /\ (LaidOut /\ m_leftButtons.buttons # <<>>) =>
          IF "Left" \in window.adjacentScreenEdges
          THEN /\ m_leftButtons.geometry.x = 0
               /\ C15_First.geometry.w = widthOf(C15_First) + C14_SideMargin
               /\ C15_First.m_padding.left = C14_SideMargin
               /\ C15_First.flag = "FlagFirstInList"
          ELSE /\ m_leftButtons.geometry.x = C14_SideMargin + borders.left
               /\ C15_Unwidened(m_leftButtons)
    /\ (LaidOut /\ m_rightButtons.buttons # <<>>) =>
          IF "Right" \in window.adjacentScreenEdges
          THEN /\ C15_RightEnd = C15_Width
               /\ C15_Last.geometry.w = widthOf(C15_Last) + C14_SideMargin
               /\ C15_Last.m_padding.right = C14_SideMargin
               /\ C15_Last.flag = "FlagFirstInList"
          ELSE /\ C15_RightEnd = C15_Width - C14_SideMargin - borders.right
               /\ C15_Unwidened(m_rightButtons)

C15_Preferred(btn) == btn.preferredSize.w
C15_WholePreferred(btn) == C14_Whole(btn.preferredSize.w)

\* C15 as stated: after updateButtonsGeometry a non-empty left group is at x =
\* sideMargin + leftBorder with no button widened when the left edge is not
\* screen-adjacent, and at x = 0 with its first button as wide as its
\* preferred width + sideMargin, padded by sideMargin on the left and flagged
\* first-in-list when it is; a non-empty right group ends at width -
\* sideMargin - rightBorder, or at width with its last button widened by
\* sideMargin, padded and flagged.
C15_GroupsPlacedByPreferredWidth == C15_Placed(C15_Preferred)

\* C15 amended: the same, the widened outermost button being as wide as its
\* preferred width truncated to whole pixels plus sideMargin.
C15_GroupsPlacedByWholeWidth == C15_Placed(C15_WholePreferred)

C15_Witness ==
    /\ LaidOut
    /\ window.adjacentScreenEdges = {"Left", "Right"}
    /\ m_leftButtons.buttons # <<>> /\ m_rightButtons.buttons # <<>>
    /\ C15_First.type = "Spacer" /\ C15_First.preferredSize.w % PxUnit # 0
    /\ C15_RightEnd = C15_Width /\ m_leftButtons.geometry.x = 0

\* the figures C16 is stated in: the title rect enlarged by the corner radius
\* on chosen edges (and, as line 288 does, on the bottom), and what is left of
\* its rounded rectangle inside the title rect: a corner stays rounded exactly
\* when the enlarged rect still has it where the title rect has it
C16_Radius == Px(m_internalSettings.cornerRadius)
C16_Inflated(onLeft, onTop, onRight) ==
    adjusted(m_titleRect, IF onLeft THEN 0 - C16_Radius ELSE 0,
                          IF onTop THEN 0 - C16_Radius ELSE 0,
                          IF onRight THEN C16_Radius ELSE 0,
                          C16_Radius)
C16_Intersected(r, clip) ==
    IF clip.w = 0 \/ clip.h = 0 THEN EmptyPath
    ELSE addRoundedRectClipped(r, clip, C16_Radius,
             {c \in {"TL", "TR", "BL", "BR"} :
                 /\ (c \in {"TL", "BL"} => r.x = clip.x)
                 /\ (c \in {"TR", "BR"} => r.x + r.w = clip.x + clip.w)
                 /\ (c \in {"TL", "TR"} => r.y = clip.y)
                 /\ (c \in {"BL", "BR"} => r.y + r.h = clip.y + clip.h)})
C16_Case ==
    /\ Calculated /\ ~hist.arg
    /\ ~isMaximized(window) /\ settings.alphaChannelSupported /\ ~window.shaded
C16_Shapes(onLeft, onTop, onRight) ==
    C16_Case =>
        /\ m_titleBarPath = C16_Intersected(C16_Inflated(onLeft, onTop, onRight), m_titleRect)
        /\ m_windowPath = addRoundedRect(rectOf(window, borders), C16_Radius)

\* C16 as stated: calculateWindowAndTitleBarShapes gives a window that is not
\* maximized, not shaded and has alpha compositing a title-bar path that is
\* the rounded rectangle of the title rect enlarged by the corner radius on
\* exactly the left, top and right edges that are not screen-adjacent, cut to
\* the title rect, and a window path that is the rounded rectangle of the
\* whole decoration rect.
C16_InflatedOnFreeEdges ==
    C16_Shapes(~isLeftEdge(window), ~isTopEdge(window), ~isRightEdge(window))

\* C16 amended: the same, the title rect being enlarged on exactly the left,
\* top and right edges that are screen-adjacent, and always on the bottom.
C16_InflatedOnAdjacentEdges ==
    C16_Shapes(isLeftEdge(window), isTopEdge(window), isRightEdge(window))

C16_Witness ==
    /\ C16_Case /\ C16_Radius > 0
    /\ window.adjacentScreenEdges = {"Left"}
    /\ m_titleBarPath.corners = {"TR"}
    /\ m_windowPath.corners = {"TL", "TR", "BL", "BR"}

\* C17: the pen paintTitleBar takes from fontColor() is the host's active
\* foreground for an active window whose animation is idle, the inactive
\* foreground for an inactive one, and while the window's animation is
\* Running the mix of the inactive and the active foreground weighted by the
\* animation's progress.
C17_FontColorCrossFaded ==
    hist.op = "paint" =>
        hist.out.pen =
            IF m_animation.state = "Running"
            THEN mix(HostColor("Inactive", "Foreground"), HostColor("Active", "Foreground"),
                     m_opacity, OpacityOne)
            ELSE HostColor(IF window.active THEN "Active" ELSE "Inactive", "Foreground")

C18_Button == m_leftButtons.buttons[hist.out.button]
C18_TitleBar == titleBarColor(window, m_internalSettings, Unanimated)
C18_Font == fontColor(window)
C18_Outlined == C18_Button.type = "Close" /\ m_internalSettings.outlineCloseButton
C18_Kept == C18_Button.type \in {"KeepAbove", "KeepBelow", "Shade"} /\ C18_Button.checked
C18_Running == C18_Button.m_animation.state = "Running"

\* C18: Button::foregroundColor answers by the first rule that matches, in
\* this order: pressed gives the title-bar colour; the Close button under
\* the outline policy gives the title-bar colour; a checked KeepAbove,
\* KeepBelow or Shade button gives the title-bar colour; a Running animation
\* gives the mix of font colour and title-bar colour by the button's
\* progress; hovered gives the title-bar colour; anything else the font
\* colour.
C18_ForegroundByFirstMatch ==
    hist.op = "foregroundColor" =>
        /\ (C18_Button.pressed \/ C18_Outlined \/ C18_Kept) => hist.out.color = C18_TitleBar
        /\ (~C18_Button.pressed /\ ~C18_Outlined /\ ~C18_Kept) =>
              /\ C18_Running =>
                    hist.out.color = mix(C18_Font, C18_TitleBar, C18_Button.m_opacity, OpacityOne)
              /\ (~C18_Running /\ C18_Button.hovered) => hist.out.color = C18_TitleBar
              /\ (~C18_Running /\ ~C18_Button.hovered) => hist.out.color = C18_Font

C18_Witness ==
    /\ hist.op = "foregroundColor"
    /\ ~C18_Button.pressed /\ ~C18_Outlined /\ ~C18_Kept
    /\ C18_Running /\ C18_Button.hovered /\ C18_Button.checked
    /\ hist.out.color.kind = "mix"

\* the steps C19 is about: updateAnimationState starts the window's idle
\* animation; where it is heading and where its direction begins
C19_Starts ==
    /\ m_animation.state = "Stopped"
    /\ m_internalSettings.animationsEnabled
    /\ window'.active # window.active
C19_Target == IF window'.active THEN OpacityOne ELSE 0
C19_Origin == IF window'.active THEN 0 ELSE OpacityOne

\* a running animation moves toward 1 (forward) or 0 (backward), is idle at
\* an endpoint when it stops, and an idle one keeps its progress while it is
\* not started and its duration is not reconfigured
C19_MovesAndRests ==
    /\ (/\ m_animation.state = "Running"
        /\ m_animation'.currentTime # m_animation.currentTime)
       => IF m_animation.direction = "Forward" THEN m_opacity' >= m_opacity
          ELSE m_opacity' <= m_opacity
    /\ (m_animation.state = "Running" /\ m_animation'.state = "Stopped")
       => m_opacity' \in {0, OpacityOne}
    /\ (/\ m_animation.state = "Stopped" /\ ~C19_Starts
        /\ m_animation'.duration = m_animation.duration)
       => m_opacity' = m_opacity /\ m_animation'.state = "Stopped"

\* C19 as stated: when updateAnimationState starts an idle animation (of a
\* duration above 0) the animation is Running from the progress retained at
\* that moment, without a jump, whatever flips came before; it then moves
\* toward its endpoint, is idle on reaching it and keeps the value.
C19_StartsFromRetainedProgress ==
    [][/\ (C19_Starts /\ m_animation.duration > 0)
          => m_animation'.state = "Running" /\ m_opacity' = m_opacity
       /\ C19_MovesAndRests]_vars

\* C19 amended: when updateAnimationState starts an idle animation the
\* progress is first set to the beginning of the new direction, 0 for
\* forward and 1 for backward, whatever was retained (with a duration of 0
\* it goes to the target endpoint at once and the animation stays idle); it
\* then moves toward its endpoint, is idle on reaching it and keeps the
\* value.
C19_StartsFromBeginningOfDirection ==
    [][/\ C19_Starts
          => IF m_animation.duration > 0
             THEN /\ m_animation'.state = "Running"
                  /\ m_animation'.direction = (IF window'.active THEN "Forward" ELSE "Backward")
                  /\ m_opacity' = C19_Origin
             ELSE m_animation'.state = "Stopped" /\ m_opacity' = C19_Target
       /\ C19_MovesAndRests]_vars

\* the first signal was a deactivation that started the animation backward:
\* the progress, 0 since init, is now 1
C19_Witness ==
    /\ hist.op = "signal" /\ hist.budget = MaxSignals - 1
    /\ ~window.active
    /\ m_animation.state = "Running" /\ m_animation.direction = "Backward"
    /\ m_animation.currentTime = m_animation.duration
    /\ m_opacity = OpacityOne

\* C20: after updateButtonsGeometry a button carries the first-in-list flag
\* only if it is the outermost button of its group, the first of the left
\* group or the last of the right one, and that group's window edge is
\* screen-adjacent now: the flag is gone once the window has left the edge.
C20_FlagOnlyOnOutermostAtEdge ==
    LaidOut =>
        /\ \A i \in 1..Len(m_leftButtons.buttons) :
              m_leftButtons.buttons[i].flag = "FlagFirstInList" =>
                  i = 1 /\ isLeftEdge(window)
        /\ \A i \in 1..Len(m_rightButtons.buttons) :
              m_rightButtons.buttons[i].flag = "FlagFirstInList" =>
                  i = Len(m_rightButtons.buttons) /\ isRightEdge(window)

\* C21: Button::paint of a Menu button leaves the icon loader's custom
\* palette as it found it: none set before, none set after; a palette P set
\* before, P set after, not the window palette with the font colour as
\* WindowText that was installed while the icon was painted.
C21_PaintLeavesCustomPalette ==
    [][(hist'.op = "buttonPaint" /\ m_leftButtons.buttons[hist'.out.button].type = "Menu")
          => iconLoader' = iconLoader]_vars

====
